---- MODULE Spec2Model ----
(***************************************************************************)
(* Model of the moxie dictation backend (functions/api/_handler.ts).       *)
(*                                                                         *)
(* Spec      : the /submit handler as a state machine over the key-value   *)
(*             store and the object store.  Every await on the store is    *)
(*             one step, so requests interleave exactly at the points      *)
(*             where the handler suspends.                                 *)
(* SpecScore : the OCR / scoring / feedback stages of one submission, run  *)
(*             on bounded strings and bounded model responses.             *)
(*                                                                         *)
(* Time is not modelled.  The only TTL expiry that is an action is the one *)
(* of the cooldown marker (the handler never deletes it); lock markers, the*)
(* pending fingerprint and the set are removed by the handler itself and   *)
(* their TTL, a safety net for crashed invocations, is not exercised.      *)
(* Store failures are modelled where the handler has a path for them       *)
(* inside the try block (object-store put, the writes of the commit        *)
(* stage); the deletes of the finally block are taken to succeed.          *)
(***************************************************************************)
EXTENDS Integers, Sequences, FiniteSets, TLC

\* ------------------------------------------------------------------ bounds
MaxAdmitted == 2            \* /submit requests that take the submit lock
ChapterQuestionCount == 4   \* blanks of the one chapter of the corpus

\* ------------------------------------------------------- program constants
MAX_QUESTIONS_PER_GAOKAO_SET == 4
SCORE_PER_QUESTION == 2
REFERENCE_QUESTION_COUNT_FOR_POINTS == 4
MAX_POINTS_BASE == 80
CHAPTER_DAILY_SUBMIT_LIMIT == 2
CHAPTER_WEEKLY_SUBMIT_LIMIT == 8

\* ------------------------------------------------------------- input sets
Slots == {"r1", "r2"}                 \* concurrently running invocations
Users == {"alice", "bob"}
SetIds == {"s1"}
Images == {"imgA", "imgB"}            \* distinct image contents
ImageValues == {"file", "missing", "oversize"}   \* form field handwritingImage
SetIdValues == SetIds \cup {""}       \* form field setId
ChapterOrderValues == {"", "1", "9", "x"}   \* form field chapterOrder
Scopes == {"total", "weekly", "daily"}
NoOwner == "nobody"
NULL == -1        \* a key of a counter that is not stored

\* faults of the store that are exercised: the scopes whose stats record is
\* written when the three updates run, and the chapter counters written
StatsWriteOutcomes == {Scopes, {"total"}, {}}
ChapterWriteOutcomes == {{"daily", "weekly"}, {"daily"}, {}}

\* numbers of correct slots the scoring of n slots is exercised with
CorrectChoices(n) == {0, n}

\* parseInt(challengeIdentifier, 10) on the chapterOrder inputs; -1 is NaN
ParseInt(s) == IF s = "1" THEN 1 ELSE IF s = "9" THEN 9 ELSE -1

\* poemData.chapterMap: the corpus has the single chapter 1
ChapterMapHas(order) == order = 1

\* ------------------------------------------------------------ pure helpers
getScoreTarget(questionCount) ==
    (IF questionCount > 1 THEN questionCount ELSE 1) * SCORE_PER_QUESTION

\* parseStoredCounter: the stored value is NULL, a count, or (below NULL)
\* something parseInt makes no count of
parseStoredCounter(rawValue, fallbackOnInvalid) ==
    IF rawValue = NULL THEN 0
    ELSE IF rawValue < NULL THEN fallbackOnInvalid
    ELSE rawValue

Max2(a, b) == IF a > b THEN a ELSE b
Min2(a, b) == IF a < b THEN a ELSE b

\* Math.round of the non-negative rational num/den
RoundDiv(num, den) == (2 * num + den) \div (2 * den)

\* 1000 * max(0.8, min(1.5, sqrt(max(n,1) / 4))), rounded down; from 9
\* questions on the factor is 1.5
DifficultyTable ==
    [n \in 0..9 |->
        LET m == (Max2(n, 1) * 1000000) \div REFERENCE_QUESTION_COUNT_FOR_POINTS
        IN  IF m <= 800 * 800 THEN 800
            ELSE IF m >= 1500 * 1500 THEN 1500
            ELSE CHOOSE k \in 800..1500 : k * k <= m /\ (k + 1) * (k + 1) > m]

DifficultyMilli(n) == DifficultyTable[Min2(Max2(n, 0), 9)]

\* calculatePointsAwarded; totalScore and scoreTarget in tenths of a point
calculatePointsAwarded(totalScore, scoreTarget, questionCount) ==
    LET safeScoreTarget == Max2(scoreTarget, 10)
        accNum == Max2(0, Min2(safeScoreTarget, totalScore))
        basePoints == RoundDiv(MAX_POINTS_BASE * accNum * DifficultyMilli(questionCount),
                               safeScoreTarget * 1000)
        participationBonus == 5
        fullScoreBonus == IF accNum >= safeScoreTarget THEN 15 ELSE 0
    IN  basePoints + participationBonus + fullScoreBonus

NoStats == [points |-> 0, attempts |-> 0, totalScore |-> 0]

\* updateScopedStats, the record it computes from the one it read
NextStats(current, pointsAwarded, totalScore) ==
    [points |-> current.points + pointsAwarded,
     attempts |-> current.attempts + 1,
     totalScore |-> current.totalScore + totalScore]

\* ------------------------------------------------------------------ state
VARIABLES
    kv,     \* SESSION_KV, one field per key family:
            \*   lock      moxie:submit:lock:<user>            present?
            \*   cooldown  moxie:submit:cooldown:<user>        present?
            \*   setLock   moxie:gaokao:set-lock:<setId>       present?
            \*   set       moxie:gaokao:set:<setId>            owner, NoOwner if absent
            \*   fp        moxie:image-fingerprint:user:<user>:<hash>
            \*   stats     moxie:leaderboard:<scope>:..:user:<user>
            \*   chapter   moxie:chapter-attempt:<scope>:..:user:<user>:chapter:1
            \*   version   moxie:leaderboard:version (number of the last token)
    r2,     \* IMAGES_BUCKET: live (the blob of the request in a slot is
            \* stored) and kept (blobs of requests that are over)
    req,    \* the running invocations of /submit
    hist,   \* history: setOwner, setCommits (committed submissions per
            \* set), chapterCommits (committed submissions of chapter 1 per
            \* user, of today and of this week), admitted (requests that
            \* took the submit lock)
    pl,     \* SpecScore: the pipeline of one submission
    slot,   \* SpecSlot: the scoring of one answer slot
    auth,   \* SpecAuth: auth records, session records, running handlers
    gem,    \* SpecGemini: one invocation of callGeminiAPI
    lb      \* SpecBoard: stats, version token, snapshot cache, handlers

vars == <<kv, r2, req, hist, pl, slot, auth, gem, lb>>

IdleReq ==
    [pc |-> "idle", user |-> "alice",
     challengeType |-> "unknown", challengeIdentifier |-> "",
     image |-> "none", gaokaoSetLockKey |-> FALSE,
     chapterDailyCount |-> 0, chapterWeeklyCount |-> 0,
     imageFingerprintKey |-> FALSE, imageFingerprintReserved |-> FALSE,
     imageFingerprintFinalized |-> FALSE, r2Key |-> FALSE,
     scoreCommitted |-> FALSE, current |-> [sc \in Scopes |-> NoStats],
     expectedQuestionCount |-> 0, totalScore |-> 0, pointsAwarded |-> 0,
     status |-> 0, reason |-> "",
     \* history of the request
     hasLock |-> FALSE, hasSetLock |-> FALSE, relLock |-> FALSE,
     relSetLock |-> FALSE, sawCooldown |-> FALSE, dupSeen |-> "none",
     wroteCooldown |-> FALSE, lastWrite |-> "none", usedAtStart |-> {},
     ocrDone |-> FALSE,
     \* leaderboardSnapshot of the response: "unset" before the refresh,
     \* then "bundle" or "null"
     leaderboardSnapshot |-> "unset"]

\* the pipeline of SpecScore before a submission
PlIdle ==
    [phase |-> "off", expectedQuestionCount |-> 0, attempt |-> 0,
     ocrError |-> FALSE, results |-> <<>>, totalScore |-> 0,
     feedback |-> <<>>, feedbackErrorMsg |-> FALSE, extraction |-> "",
     \* history of the pipeline: how the OCR call ended ("none", "body",
     \* "thrown"), the finish reason and the lines of a returned text, and
     \* the fetches made for each of the two calls
     ocrEnd |-> "none", ocrFinish |-> "null", ocrHasText |-> FALSE,
     ocrLines |-> <<>>, ocrFetches |-> 0, ocrFetchesAtEnd |-> 0,
     feedbackFetches |-> 0]

\* the slot of SpecSlot before it is given its strings
SlotIdle == [phase |-> "off"]

\* SpecGemini: callGeminiAPI before it is invoked
GemIdle == [phase |-> "off"]

\* SpecBoard: the leaderboard before it is set up
LbIdle == [phase |-> "off"]

\* SpecAuth: a handler that is not running
IdleProc ==
    [kind |-> "idle", pc |-> "idle", token |-> 0, password |-> "",
     newPassword |-> "", fresh |-> 0, failedAttempts |-> 0, status |-> 0,
     wasActive |-> FALSE,
     authRecord |-> [exists |-> FALSE, passwordSalt |-> 0,
                     passwordHash |-> <<"", 0>>, activeSessionToken |-> 0]]

\* SpecAuth: the store before the user has ever logged in.  record is
\* moxie:auth:<user> (activeSessionToken 0: the field is absent), sessions
\* the tokens with a stored moxie:session:<token>, rate the change-password
\* failure counter, profile moxie:profile:<user> (the number of times it
\* was written, 0: no profile).  History: ops (operations started, each gets the next
\* fresh value), known (tokens returned to the client), issued (tokens in
\* the order their login or password change wrote the auth record),
\* byLogin (the issued tokens that a login minted), loggedOut (tokens that
\* were active when a logout looked them up, once that logout has returned).
AuthIdle ==
    [record |-> [exists |-> FALSE, passwordSalt |-> 0,
                 passwordHash |-> <<"", 0>>, activeSessionToken |-> 0],
     sessions |-> {}, rate |-> NULL, profile |-> 0,
     ops |-> 0, known |-> {}, issued |-> <<>>, byLogin |-> {},
     loggedOut |-> {},
     proc |-> [p \in {"p1", "p2"} |-> IdleProc]]

Init ==
    /\ kv = [lock |-> [u \in Users |-> FALSE],
             cooldown |-> [u \in Users |-> FALSE],
             setLock |-> [s \in SetIds |-> FALSE],
             set |-> [s \in SetIds |-> NoOwner],
             fp |-> [u \in Users |-> [i \in Images |-> "absent"]],
             stats |-> [sc \in Scopes |-> [u \in Users |-> NoStats]],
             chapter |-> [sc \in {"daily", "weekly"} |-> [u \in Users |-> NULL]],
             version |-> 0]
    /\ r2 = [live |-> [r \in Slots |-> FALSE], kept |-> 0]
    /\ req = [r \in Slots |-> IdleReq]
    /\ hist = [setOwner |-> [s \in SetIds |-> NoOwner],
               setCommits |-> [s \in SetIds |-> 0],
               chapterCommits |-> [sc \in {"daily", "weekly"} |->
                                     [u \in Users |-> 0]],
               admitted |-> 0]
    /\ pl = PlIdle
    /\ slot = SlotIdle
    /\ gem = GemIdle
    /\ lb = LbIdle
    /\ auth = AuthIdle

\* ------------------------------------------------------- request plumbing
Upd(r, rec) == req' = [req EXCEPT ![r] = rec]

\* the invocation has returned: its locals are gone, what stays is the
\* response and the history of the request
Finished(rec) ==
    [IdleReq EXCEPT
        !.pc = "done", !.user = rec.user, !.status = rec.status,
        !.reason = rec.reason, !.challengeType = rec.challengeType,
        !.challengeIdentifier = rec.challengeIdentifier,
        !.scoreCommitted = rec.scoreCommitted,
        !.hasLock = rec.hasLock, !.hasSetLock = rec.hasSetLock,
        !.relLock = rec.relLock, !.relSetLock = rec.relSetLock,
        !.sawCooldown = rec.sawCooldown, !.dupSeen = rec.dupSeen,
        !.wroteCooldown = rec.wroteCooldown, !.lastWrite = rec.lastWrite,
        !.usedAtStart = rec.usedAtStart, !.ocrDone = rec.ocrDone,
        !.leaderboardSnapshot = rec.leaderboardSnapshot]

\* a Response is returned before the try block: no finally
Return(rec, st, why) == Finished([rec EXCEPT !.status = st, !.reason = why])

\* C24 mutant: the cleanup does not look at scoreCommitted
FinallyPcAfterCommit(rec) ==
    IF rec.imageFingerprintKey
       /\ rec.imageFingerprintReserved /\ ~rec.imageFingerprintFinalized
    THEN "fin_fp"
    ELSE IF rec.r2Key THEN "fin_r2"
    ELSE "fin_lock"

\* first step of the finally block that has something to do
FinallyPc(rec) ==
    IF ~rec.scoreCommitted /\ rec.imageFingerprintKey
       /\ rec.imageFingerprintReserved /\ ~rec.imageFingerprintFinalized
    THEN "fin_fp"
    ELSE IF ~rec.scoreCommitted /\ rec.r2Key THEN "fin_r2"
    ELSE "fin_lock"

\* C8 mutant: an error response leaves the handler without the finally block
LeaveWithoutFinally(rec, st, why) ==
    LET out == [rec EXCEPT !.status = st, !.reason = why]
    IN  IF st = 200 THEN [out EXCEPT !.pc = FinallyPc(out)] ELSE Finished(out)

\* a return or a throw inside the try block: the finally block runs first
Leave(rec, st, why) ==
    LET out == [rec EXCEPT !.status = st, !.reason = why]
    IN  [out EXCEPT !.pc = FinallyPc(out)]

\* the stored counter of (scope, user, chapter order)
ChapterCounter(sc, u, order) == IF order = 1 THEN kv.chapter[sc][u] ELSE NULL

\* requests that are still before their put of the submit lock
AtAdmission == {r \in Slots : req[r].pc \in {"get_lock", "get_cooldown", "put_lock"}}

\* --------------------------------------------------------- other handlers
\* GET /api/start_gaokao_set: a fresh setId, stored with its owner
StartGaokaoSet(u, s) ==
    /\ hist.setOwner[s] = NoOwner
    /\ kv' = [kv EXCEPT !.set[s] = u]
    /\ hist' = [hist EXCEPT !.setOwner[s] = u]
    /\ UNCHANGED <<r2, req, pl, slot, auth, gem, lb>>

\* the store drops the cooldown marker when SUBMIT_COOLDOWN_SECONDS are over
ExpireCooldown(u) ==
    /\ kv.cooldown[u]
    /\ kv' = [kv EXCEPT !.cooldown[u] = FALSE]
    /\ UNCHANGED <<r2, req, hist, pl, slot, auth, gem, lb>>

\* ------------------------------------------------------ POST /api/submit
\* a request arrives with a valid session of user u.  The invocations are
\* anonymous: it runs in a slot whose invocation is over (r1 first), and a
\* blob that invocation left in the bucket stays there.
SubmitStart(r, u) ==
    /\ req[r].pc \in {"idle", "done"}
    /\ r = "r2" => req["r1"].pc # "idle"
    /\ hist.admitted + Cardinality(AtAdmission) < MaxAdmitted
    /\ Upd(r, [IdleReq EXCEPT !.pc = "get_lock", !.user = u,
                  !.usedAtStart = {s \in SetIds : hist.setCommits[s] > 0}])
    /\ r2' = [live |-> [r2.live EXCEPT ![r] = FALSE],
              kept |-> r2.kept + (IF r2.live[r] THEN 1 ELSE 0)]
    /\ UNCHANGED <<kv, hist, pl, slot, auth, gem, lb>>

\* C39 mutant: the rejection leaves through the cleanup of the handler
SubmitGetLockThenCleanup(r) ==
    /\ req[r].pc = "get_lock"
    /\ Upd(r, IF kv.lock[req[r].user]
              THEN Leave(req[r], 429, "submit_locked")
              ELSE [req[r] EXCEPT !.pc = "get_cooldown"])
    /\ UNCHANGED <<kv, r2, hist, pl, slot, auth, gem, lb>>

\* const submitLock = await env.SESSION_KV.get(submitLockKey)
SubmitGetLock(r) ==
    /\ req[r].pc = "get_lock"
    /\ Upd(r, IF kv.lock[req[r].user]
              THEN Return(req[r], 429, "submit_locked")
              ELSE [req[r] EXCEPT !.pc = "get_cooldown"])
    /\ UNCHANGED <<kv, r2, hist, pl, slot, auth, gem, lb>>

\* C6 mutant: the marker is read and the request is let through
SubmitGetCooldownIgnored(r) ==
    /\ req[r].pc = "get_cooldown"
    /\ Upd(r, [req[r] EXCEPT !.sawCooldown = kv.cooldown[req[r].user],
                             !.pc = "put_lock"])
    /\ UNCHANGED <<kv, r2, hist, pl, slot, auth, gem, lb>>

\* const submitCooldown = await env.SESSION_KV.get(submitCooldownKey)
SubmitGetCooldown(r) ==
    /\ req[r].pc = "get_cooldown"
    /\ Upd(r, IF kv.cooldown[req[r].user]
              THEN Return([req[r] EXCEPT !.sawCooldown = TRUE], 429, "cooldown")
              ELSE [req[r] EXCEPT !.pc = "put_lock"])
    /\ UNCHANGED <<kv, r2, hist, pl, slot, auth, gem, lb>>

\* C29 mutant: a request without an identifier is taken for a Chapter
\* submission
ValidateAnyIdentifier(rec, setIdValue, chapterOrderValue, imageValue) ==
    LET ct == IF setIdValue # "" THEN "gaokao" ELSE "chapter"
        typed == [rec EXCEPT
                    !.challengeType = ct,
                    !.challengeIdentifier =
                        IF ct = "gaokao" THEN setIdValue ELSE chapterOrderValue]
    IN  IF imageValue = "missing" THEN Leave(typed, 400, "no_image")
        ELSE IF imageValue = "oversize" THEN Leave(typed, 413, "image_too_large")
        ELSE IF ct = "gaokao"
             THEN [typed EXCEPT !.gaokaoSetLockKey = TRUE, !.pc = "get_setlock"]
        ELSE IF ParseInt(chapterOrderValue) < 0
             THEN Leave(typed, 400, "order_nan")
        ELSE [typed EXCEPT !.pc = "get_daily"]

\* request parsing and validation, up to the first await on the store
Validate(rec, setIdValue, chapterOrderValue, imageValue) ==
    LET ct == IF setIdValue # "" THEN "gaokao"
              ELSE IF chapterOrderValue # "" THEN "chapter"
              ELSE "unknown"
        typed == [rec EXCEPT
                    !.challengeType = ct,
                    !.challengeIdentifier =
                        IF ct = "gaokao" THEN setIdValue
                        ELSE IF ct = "chapter" THEN chapterOrderValue ELSE ""]
    IN  IF ct = "unknown" THEN Leave(typed, 400, "no_challenge")
        ELSE IF imageValue = "missing" THEN Leave(typed, 400, "no_image")
        ELSE IF imageValue = "oversize" THEN Leave(typed, 413, "image_too_large")
        ELSE IF ct = "gaokao"
             THEN [typed EXCEPT !.gaokaoSetLockKey = TRUE, !.pc = "get_setlock"]
        ELSE IF ParseInt(chapterOrderValue) < 0
             THEN Leave(typed, 400, "order_nan")
        ELSE [typed EXCEPT !.pc = "get_daily"]

\* await env.SESSION_KV.put(submitLockKey, ...), then the try block starts
\* with request.formData(): the form fields of the request are read here
SubmitPutLock(r) ==
    /\ req[r].pc = "put_lock"
    /\ kv' = [kv EXCEPT !.lock[req[r].user] = TRUE]
    /\ \E sid \in SetIdValues, co \in ChapterOrderValues, img \in ImageValues :
         Upd(r, Validate([req[r] EXCEPT !.hasLock = TRUE,
                                         !.lastWrite = "put_lock"],
                         sid, co, img))
    /\ hist' = [hist EXCEPT !.admitted = @ + 1]
    /\ UNCHANGED <<r2, pl, slot, auth, gem, lb>>

\* const setLock = await env.SESSION_KV.get(gaokaoSetLockKey)
SubmitGetSetLock(r) ==
    /\ req[r].pc = "get_setlock"
    /\ Upd(r, IF kv.setLock[req[r].challengeIdentifier]
              THEN Leave(req[r], 409, "set_locked")
              ELSE [req[r] EXCEPT !.pc = "put_setlock"])
    /\ UNCHANGED <<kv, r2, hist, pl, slot, auth, gem, lb>>

\* await env.SESSION_KV.put(gaokaoSetLockKey, ...)
SubmitPutSetLock(r) ==
    /\ req[r].pc = "put_setlock"
    /\ kv' = [kv EXCEPT !.setLock[req[r].challengeIdentifier] = TRUE]
    /\ Upd(r, [req[r] EXCEPT !.pc = "get_set", !.hasSetLock = TRUE,
                             !.lastWrite = "put_setlock"])
    /\ UNCHANGED <<r2, hist, pl, slot, auth, gem, lb>>

\* C3 mutant: the set is loaded without the ownership check
ResolveSetAnyUser(rec, owner) ==
    IF owner = NoOwner THEN Leave(rec, 400, "set_missing")
    ELSE [rec EXCEPT !.expectedQuestionCount = MAX_QUESTIONS_PER_GAOKAO_SET,
                     !.pc = "fp_get"]

\* C40 mutant: the ownership rejection returns without the cleanup
ResolveSetRejectNoCleanup(rec, owner) ==
    IF owner = NoOwner THEN Leave(rec, 400, "set_missing")
    ELSE IF owner # rec.user THEN Return(rec, 403, "not_owner")
    ELSE [rec EXCEPT !.expectedQuestionCount = MAX_QUESTIONS_PER_GAOKAO_SET,
                     !.pc = "fp_get"]

\* load the set, then the missing / ownership checks (usedAt is never
\* written by the handler, a stored set has none)
ResolveSet(rec, owner) ==
    IF owner = NoOwner THEN Leave(rec, 400, "set_missing")
    ELSE IF owner # rec.user THEN Leave(rec, 403, "not_owner")
    ELSE [rec EXCEPT !.expectedQuestionCount = MAX_QUESTIONS_PER_GAOKAO_SET,
                     !.pc = "fp_get"]

\* questionSet = await env.SESSION_KV.get(gaokaoSetStorageKey, 'json')
SubmitGetSet(r) ==
    /\ req[r].pc = "get_set"
    /\ \/ Upd(r, ResolveSet(req[r], kv.set[req[r].challengeIdentifier]))
       \/ Upd(r, Leave(req[r], 404, "set_get_failed"))
    /\ UNCHANGED <<kv, r2, hist, pl, slot, auth, gem, lb>>

\* const rawDailyCount = await env.SESSION_KV.get(chapterDailyAttemptKey)
SubmitGetDaily(r) ==
    /\ req[r].pc = "get_daily"
    /\ Upd(r, [req[r] EXCEPT
                 !.chapterDailyCount =
                     parseStoredCounter(
                         ChapterCounter("daily", req[r].user,
                                        ParseInt(req[r].challengeIdentifier)),
                         CHAPTER_DAILY_SUBMIT_LIMIT),
                 !.pc = "get_weekly"])
    /\ UNCHANGED <<kv, r2, hist, pl, slot, auth, gem, lb>>

\* C16 mutant: the chapter is looked up without the quota checks
ResolveChapterNoQuota(rec) ==
    IF ~ChapterMapHas(ParseInt(rec.challengeIdentifier))
    THEN Leave(rec, 404, "chapter_missing")
    ELSE [rec EXCEPT !.expectedQuestionCount = ChapterQuestionCount,
                     !.pc = "fp_get"]

\* the quota checks and the chapter lookup
ResolveChapter(rec) ==
    IF rec.chapterDailyCount >= CHAPTER_DAILY_SUBMIT_LIMIT
    THEN Leave(rec, 429, "daily_quota")
    ELSE IF rec.chapterWeeklyCount >= CHAPTER_WEEKLY_SUBMIT_LIMIT
    THEN Leave(rec, 429, "weekly_quota")
    ELSE IF ~ChapterMapHas(ParseInt(rec.challengeIdentifier))
    THEN Leave(rec, 404, "chapter_missing")
    ELSE [rec EXCEPT !.expectedQuestionCount = ChapterQuestionCount,
                     !.pc = "fp_get"]

\* const rawWeeklyCount = await env.SESSION_KV.get(chapterWeeklyAttemptKey)
SubmitGetWeekly(r) ==
    /\ req[r].pc = "get_weekly"
    /\ Upd(r, ResolveChapter([req[r] EXCEPT
                 !.chapterWeeklyCount =
                     parseStoredCounter(
                         ChapterCounter("weekly", req[r].user,
                                        ParseInt(req[r].challengeIdentifier)),
                         CHAPTER_WEEKLY_SUBMIT_LIMIT)]))
    /\ UNCHANGED <<kv, r2, hist, pl, slot, auth, gem, lb>>

\* C5 mutant: only a finalized record rejects, a pending one is overwritten
CheckFingerprintFinalOnly(rec, stored) ==
    IF stored = "final"
    THEN Leave([rec EXCEPT !.imageFingerprintKey = TRUE, !.dupSeen = stored],
               409, "duplicate_image")
    ELSE [rec EXCEPT !.imageFingerprintKey = TRUE,
                     !.dupSeen = IF stored = "absent" THEN "none" ELSE stored,
                     !.pc = "fp_put"]

\* the duplicate-image guard on the stored fingerprint record
CheckFingerprint(rec, stored) ==
    IF stored # "absent"
    THEN Leave([rec EXCEPT !.imageFingerprintKey = TRUE, !.dupSeen = stored],
               409, "duplicate_image")
    ELSE [rec EXCEPT !.imageFingerprintKey = TRUE, !.pc = "fp_put"]

\* imageBuffer = await imageFile.arrayBuffer(), its hash, and
\* const hasUsedSameImage = await env.SESSION_KV.get(imageFingerprintKey);
\* the content of the uploaded file is read here
SubmitGetFingerprint(r) ==
    /\ req[r].pc = "fp_get"
    /\ \E img \in Images :
         Upd(r, CheckFingerprint([req[r] EXCEPT !.image = img],
                                 kv.fp[req[r].user][img]))
    /\ UNCHANGED <<kv, r2, hist, pl, slot, auth, gem, lb>>

\* C31 mutant: the OCR call is made right after the reservation, before the
\* image is stored
SubmitPutFingerprintThenOcr(r) ==
    /\ req[r].pc = "fp_put"
    /\ kv' = [kv EXCEPT !.fp[req[r].user][req[r].image] = "pending"]
    /\ Upd(r, [req[r] EXCEPT !.imageFingerprintReserved = TRUE,
                             !.lastWrite = "put_fp", !.pc = "ocr"])
    /\ UNCHANGED <<r2, hist, pl, slot, auth, gem, lb>>

\* await env.SESSION_KV.put(imageFingerprintKey, `pending:...`)
SubmitPutFingerprint(r) ==
    /\ req[r].pc = "fp_put"
    /\ kv' = [kv EXCEPT !.fp[req[r].user][req[r].image] = "pending"]
    /\ Upd(r, [req[r] EXCEPT !.imageFingerprintReserved = TRUE,
                             !.lastWrite = "put_fp", !.pc = "r2_put"])
    /\ UNCHANGED <<r2, hist, pl, slot, auth, gem, lb>>

\* await env.IMAGES_BUCKET.put(r2Key, imageBuffer, ...), which may fail
SubmitPutImage(r) ==
    /\ req[r].pc = "r2_put"
    /\ \/ /\ r2' = [r2 EXCEPT !.live[r] = TRUE]
          /\ Upd(r, [req[r] EXCEPT !.r2Key = TRUE, !.lastWrite = "put_r2",
                                   !.pc = "ocr"])
       \/ /\ r2' = r2
          /\ Upd(r, Leave([req[r] EXCEPT !.r2Key = TRUE], 500, "r2_failed"))
    /\ UNCHANGED <<kv, hist, pl, slot, auth, gem, lb>>

\* OCR call, scoring and feedback call: no access to the stores; the number
\* of correct slots is whatever the OCR result gives (SpecScore has the
\* stages in detail)
SubmitOcrScoreFeedback(r) ==
    /\ req[r].pc = "ocr"
    /\ \E correct \in CorrectChoices(req[r].expectedQuestionCount) :
         LET n == req[r].expectedQuestionCount
             total == correct * SCORE_PER_QUESTION * 10
         IN  Upd(r, [req[r] EXCEPT
                       !.totalScore = total,
                       !.pointsAwarded =
                           calculatePointsAwarded(total, getScoreTarget(n) * 10, n),
                       !.ocrDone = TRUE, !.pc = "fp_final"])
    /\ UNCHANGED <<kv, r2, hist, pl, slot, auth, gem, lb>>

\* ---- commit stage -------------------------------------------------------
\* await env.SESSION_KV.put(imageFingerprintKey, String(now), ...)
SubmitFinalizeFingerprint(r) ==
    /\ req[r].pc = "fp_final"
    /\ \/ /\ kv' = [kv EXCEPT !.fp[req[r].user][req[r].image] = "final"]
          /\ Upd(r, [req[r] EXCEPT
                       !.imageFingerprintFinalized = TRUE,
                       !.lastWrite = "final_fp",
                       !.pc = IF req[r].challengeType = "gaokao"
                              THEN "set_delete" ELSE "stats_get"])
       \/ /\ kv' = kv
          /\ Upd(r, Leave(req[r], 500, "fp_final_failed"))
    /\ UNCHANGED <<r2, hist, pl, slot, auth, gem, lb>>

\* C1 mutant: the commit leaves the stored set in place
SubmitKeepSet(r) ==
    /\ req[r].pc = "set_delete"
    /\ Upd(r, [req[r] EXCEPT !.pc = "stats_get"])
    /\ UNCHANGED <<kv, r2, hist, pl, slot, auth, gem, lb>>

\* await env.SESSION_KV.delete(gaokaoSetStorageKey); a failure is rethrown
SubmitDeleteSet(r) ==
    /\ req[r].pc = "set_delete"
    /\ \/ /\ kv' = [kv EXCEPT !.set[req[r].challengeIdentifier] = NoOwner]
          /\ Upd(r, [req[r] EXCEPT !.lastWrite = "del_set", !.pc = "stats_get"])
       \/ /\ kv' = kv
          /\ Upd(r, Leave(req[r], 500, "set_delete_failed"))
    /\ UNCHANGED <<r2, hist, pl, slot, auth, gem, lb>>

\* updateScopedStats x3: const current = await getJsonKV(kv, statsKey)
SubmitStatsGet(r) ==
    /\ req[r].pc = "stats_get"
    /\ Upd(r, [req[r] EXCEPT
                 !.current = [sc \in Scopes |-> kv.stats[sc][req[r].user]],
                 !.pc = "stats_put"])
    /\ UNCHANGED <<kv, r2, hist, pl, slot, auth, gem, lb>>

\* the stats after the scopes in ok were written by request rec
StatsWritten(rec, ok) ==
    [sc \in Scopes |->
        IF sc \in ok
        THEN [kv.stats[sc] EXCEPT ![rec.user] =
                 NextStats(rec.current[sc], rec.pointsAwarded, rec.totalScore)]
        ELSE kv.stats[sc]]

\* updateScopedStats x3: await putJsonKV(kv, statsKey, nextStats, ttl).
\* Promise.all rejects when one of the three fails; the scopes in ok are
\* the ones that were written.
SubmitStatsPut(r) ==
    /\ req[r].pc = "stats_put"
    /\ \E ok \in StatsWriteOutcomes :
         /\ kv' = [kv EXCEPT !.stats = StatsWritten(req[r], ok)]
         /\ IF ok = Scopes
            THEN /\ Upd(r, [req[r] EXCEPT
                              !.scoreCommitted = TRUE, !.lastWrite = "put_stats",
                              !.pc = IF req[r].challengeType = "chapter"
                                     THEN "chapter_put" ELSE "lb_bump"])
                 /\ hist' = [hist EXCEPT
                               !.setCommits =
                                  IF req[r].challengeType = "gaokao"
                                  THEN [@ EXCEPT ![req[r].challengeIdentifier] = @ + 1]
                                  ELSE @,
                               !.chapterCommits =
                                  IF req[r].challengeType = "chapter"
                                  THEN [sc \in {"daily", "weekly"} |->
                                          [@[sc] EXCEPT ![req[r].user] = @ + 1]]
                                  ELSE @]
            ELSE /\ Upd(r, Leave([req[r] EXCEPT
                                    !.lastWrite = IF ok = {} THEN @ ELSE "put_stats"],
                                 500, "stats_failed"))
                 /\ hist' = hist
    /\ UNCHANGED <<r2, pl, slot, auth, gem, lb>>

\* the two chapter counters, written together with the counts read earlier
SubmitPutChapterCounters(r) ==
    /\ req[r].pc = "chapter_put"
    /\ \E ok \in ChapterWriteOutcomes :
         /\ kv' = [kv EXCEPT !.chapter =
              [sc \in {"daily", "weekly"} |->
                 IF sc \in ok
                 THEN [kv.chapter[sc] EXCEPT ![req[r].user] =
                          IF sc = "daily" THEN req[r].chapterDailyCount + 1
                          ELSE req[r].chapterWeeklyCount + 1]
                 ELSE kv.chapter[sc]]]
         /\ Upd(r, IF ok = {"daily", "weekly"}
                   THEN [req[r] EXCEPT !.lastWrite = "put_chapter",
                                       !.pc = "lb_bump"]
                   ELSE Leave([req[r] EXCEPT
                                 !.lastWrite = IF ok = {} THEN @ ELSE "put_chapter"],
                              500, "chapter_put_failed"))
    /\ UNCHANGED <<r2, hist, pl, slot, auth, gem, lb>>

\* C33 mutant: a failure of the leaderboard refresh is not caught
SubmitLeaderboardUncaught(r) ==
    /\ req[r].pc = "lb_bump"
    /\ \/ /\ kv' = [kv EXCEPT !.version = @ + 1]
          /\ \/ Upd(r, [req[r] EXCEPT !.lastWrite = "put_version",
                                      !.leaderboardSnapshot = "bundle",
                                      !.pc = "cooldown_put"])
             \/ Upd(r, Leave([req[r] EXCEPT !.lastWrite = "put_version",
                                            !.leaderboardSnapshot = "null"],
                             500, "leaderboard_failed"))
       \/ /\ kv' = kv
          /\ Upd(r, Leave([req[r] EXCEPT !.leaderboardSnapshot = "null"],
                          500, "leaderboard_failed"))
    /\ UNCHANGED <<r2, hist, pl, slot, auth, gem, lb>>

\* bumpLeaderboardVersion and getLeaderboardBundle under try / catch: a
\* failure of either is swallowed and leaves leaderboardSnapshot null.
\* Every bump makes a token that was never used (tokens are numbered).  The
\* reads and the cache write of getLeaderboardBundle are in SpecBoard.
SubmitLeaderboard(r) ==
    /\ req[r].pc = "lb_bump"
    /\ \/ /\ kv' = [kv EXCEPT !.version = @ + 1]
          /\ \E snapshot \in {"bundle", "null"} :
                Upd(r, [req[r] EXCEPT !.lastWrite = "put_version",
                                      !.leaderboardSnapshot = snapshot,
                                      !.pc = "cooldown_put"])
       \/ /\ kv' = kv
          /\ Upd(r, [req[r] EXCEPT !.leaderboardSnapshot = "null",
                                   !.pc = "cooldown_put"])
    /\ UNCHANGED <<r2, hist, pl, slot, auth, gem, lb>>

\* C7 mutant: the response is built without the cooldown write
SubmitWithoutCooldown(r) ==
    /\ req[r].pc = "cooldown_put"
    /\ Upd(r, Leave(req[r], 200, "scored"))
    /\ UNCHANGED <<kv, r2, hist, pl, slot, auth, gem, lb>>

\* await env.SESSION_KV.put(submitCooldownKey, ...), then the response
SubmitPutCooldown(r) ==
    /\ req[r].pc = "cooldown_put"
    /\ \/ /\ kv' = [kv EXCEPT !.cooldown[req[r].user] = TRUE]
          /\ Upd(r, Leave([req[r] EXCEPT !.wroteCooldown = TRUE,
                                         !.lastWrite = "put_cooldown"],
                          200, "scored"))
       \/ /\ kv' = kv
          /\ Upd(r, Leave(req[r], 500, "cooldown_put_failed"))
    /\ UNCHANGED <<r2, hist, pl, slot, auth, gem, lb>>

\* ---- finally ------------------------------------------------------------
\* await env.SESSION_KV.delete(imageFingerprintKey)
FinallyFingerprint(r) ==
    /\ req[r].pc = "fin_fp"
    /\ kv' = [kv EXCEPT !.fp[req[r].user][req[r].image] = "absent"]
    /\ Upd(r, [req[r] EXCEPT !.lastWrite = "del_fp",
                             !.pc = IF req[r].r2Key THEN "fin_r2" ELSE "fin_lock"])
    /\ UNCHANGED <<r2, hist, pl, slot, auth, gem, lb>>

\* await env.IMAGES_BUCKET.delete(r2Key)
FinallyImage(r) ==
    /\ req[r].pc = "fin_r2"
    /\ r2' = [r2 EXCEPT !.live[r] = FALSE]
    /\ Upd(r, [req[r] EXCEPT !.lastWrite = "del_r2", !.pc = "fin_lock"])
    /\ UNCHANGED <<kv, hist, pl, slot, auth, gem, lb>>

\* after the submit lock: the set lock if its key was computed, else return
AfterLockRelease(rec) ==
    IF rec.gaokaoSetLockKey THEN [rec EXCEPT !.pc = "fin_setlock"]
    ELSE Finished(rec)

\* await env.SESSION_KV.delete(submitLockKey)
FinallyLock(r) ==
    /\ req[r].pc = "fin_lock"
    /\ kv' = [kv EXCEPT !.lock[req[r].user] = FALSE]
    /\ Upd(r, AfterLockRelease([req[r] EXCEPT !.relLock = TRUE,
                                              !.lastWrite = "del_lock"]))
    /\ UNCHANGED <<r2, hist, pl, slot, auth, gem, lb>>

\* if (gaokaoSetLockKey) await env.SESSION_KV.delete(gaokaoSetLockKey)
FinallySetLock(r) ==
    /\ req[r].pc = "fin_setlock"
    /\ kv' = [kv EXCEPT !.setLock[req[r].challengeIdentifier] = FALSE]
    /\ Upd(r, Finished([req[r] EXCEPT !.relSetLock = TRUE,
                                      !.lastWrite = "del_setlock"]))
    /\ UNCHANGED <<r2, hist, pl, slot, auth, gem, lb>>

SubmitStep(r) ==
    \/ SubmitGetLock(r)
    \/ SubmitGetCooldown(r)
    \/ SubmitPutLock(r)
    \/ SubmitGetSetLock(r)
    \/ SubmitPutSetLock(r)
    \/ SubmitGetSet(r)
    \/ SubmitGetDaily(r)
    \/ SubmitGetWeekly(r)
    \/ SubmitGetFingerprint(r)
    \/ SubmitPutFingerprint(r)
    \/ SubmitPutImage(r)
    \/ SubmitOcrScoreFeedback(r)
    \/ SubmitFinalizeFingerprint(r)
    \/ SubmitDeleteSet(r)
    \/ SubmitStatsGet(r)
    \/ SubmitStatsPut(r)
    \/ SubmitPutChapterCounters(r)
    \/ SubmitLeaderboard(r)
    \/ SubmitPutCooldown(r)
    \/ FinallyFingerprint(r)
    \/ FinallyImage(r)
    \/ FinallyLock(r)
    \/ FinallySetLock(r)

Next ==
    \/ \E u \in Users, s \in SetIds : StartGaokaoSet(u, s)
    \/ \E u \in Users : ExpireCooldown(u)
    \/ \E r \in Slots, u \in Users : SubmitStart(r, u)
    \/ \E r \in Slots : SubmitStep(r)

Spec == Init /\ [][Next]_vars

\* ============================================================== SpecQuota
\* Requests that run one after the other, on a store that holds the chapter
\* counters and stats of earlier submissions of alice: every one of them
\* scored 0 (5 points each), w of them this week and d of them today.
QuotaHistories ==
    {[daily |-> 0, weekly |-> 0],
     [daily |-> CHAPTER_DAILY_SUBMIT_LIMIT - 1,
      weekly |-> CHAPTER_WEEKLY_SUBMIT_LIMIT - 1],
     [daily |-> CHAPTER_DAILY_SUBMIT_LIMIT,
      weekly |-> CHAPTER_WEEKLY_SUBMIT_LIMIT - 1],
     [daily |-> CHAPTER_DAILY_SUBMIT_LIMIT - 1,
      weekly |-> CHAPTER_WEEKLY_SUBMIT_LIMIT]}

\* the stats record after k submissions that scored 0
StatsAfter(k) == [points |-> 5 * k, attempts |-> k, totalScore |-> 0]

\* the stored counter after k submissions: no key before the first
CounterAfter(k) == IF k = 0 THEN NULL ELSE k

\* the store after the submissions of history h
QuotaKv(h) ==
    [lock |-> [u \in Users |-> FALSE],
     cooldown |-> [u \in Users |-> FALSE],
     setLock |-> [s \in SetIds |-> FALSE],
     set |-> [s \in SetIds |-> NoOwner],
     fp |-> [u \in Users |-> [i \in Images |-> "absent"]],
     stats |-> [sc \in Scopes |-> [u \in Users |->
                  IF u # "alice" THEN NoStats
                  ELSE IF sc = "daily" THEN StatsAfter(h.daily)
                  ELSE StatsAfter(h.weekly)]],
     chapter |-> [sc \in {"daily", "weekly"} |-> [u \in Users |->
                    IF u # "alice" THEN NULL
                    ELSE IF sc = "daily" THEN CounterAfter(h.daily)
                    ELSE CounterAfter(h.weekly)]],
     version |-> 0]

\* the committed submissions of history h
QuotaHist(h) ==
    [setOwner |-> [s \in SetIds |-> NoOwner],
     setCommits |-> [s \in SetIds |-> 0],
     chapterCommits |-> [sc \in {"daily", "weekly"} |-> [u \in Users |->
                           IF u # "alice" THEN 0
                           ELSE IF sc = "daily" THEN h.daily ELSE h.weekly]],
     admitted |-> 0]

InitQuota ==
    /\ \E h \in QuotaHistories : kv = QuotaKv(h) /\ hist = QuotaHist(h)
    /\ r2 = [live |-> [r \in Slots |-> FALSE], kept |-> 0]
    /\ req = [r \in Slots |-> IdleReq]
    /\ pl = PlIdle
    /\ slot = SlotIdle
    /\ gem = GemIdle
    /\ lb = LbIdle
    /\ auth = AuthIdle

NextQuota ==
    \/ \E u \in Users, s \in SetIds : StartGaokaoSet(u, s)
    \/ \E u \in Users : ExpireCooldown(u)
    \/ \E u \in Users : SubmitStart("r1", u)
    \/ SubmitStep("r1")

SpecQuota == InitQuota /\ [][NextQuota]_vars

\* =============================================================== SpecRace
\* Requests that overlap, on a store where alice has one submission of
\* chapter 1 left today and one left this week.
LastAttempt ==
    [daily |-> CHAPTER_DAILY_SUBMIT_LIMIT - 1,
     weekly |-> CHAPTER_WEEKLY_SUBMIT_LIMIT - 1]

InitRace ==
    /\ kv = QuotaKv(LastAttempt)
    /\ hist = QuotaHist(LastAttempt)
    /\ r2 = [live |-> [r \in Slots |-> FALSE], kept |-> 0]
    /\ req = [r \in Slots |-> IdleReq]
    /\ pl = PlIdle
    /\ slot = SlotIdle
    /\ gem = GemIdle
    /\ lb = LbIdle
    /\ auth = AuthIdle

SpecRace == InitRace /\ [][Next]_vars

\* ============================================================= SpecGemini
\* One invocation of callGeminiAPI.  An attempt is one fetch; its outcome is
\* a network failure (fetch throws, no response) or a response with a status
\* and a body.  text says that the message of the thrown error (the network
\* error, or status text and body of a response that is not ok) holds one of
\* the overload phrases.
API_RETRY_COUNT == 2
HttpStatuses == {200, 400, 429, 500, 503}
JsonBodies == {"data", "error", "invalid", "null"}

FetchOutcomes ==
    {[kind |-> "network", status |-> 0, json |-> "invalid", text |-> t] :
        t \in BOOLEAN}
    \cup {[kind |-> "response", status |-> st, json |-> j, text |-> t] :
            st \in HttpStatuses, j \in JsonBodies, t \in BOOLEAN}

\* the body of the try block of one attempt: a returned value or the error
\* that reaches the catch block, with response?.status (0: no response) and
\* whether its message holds an overload phrase
AttemptResult(o) ==
    IF o.kind = "network"
    THEN [end |-> "error", statusCode |-> 0, overloaded |-> o.text]
    ELSE LET ok == o.status \in 200..299
         IN  IF o.json \in {"invalid", "error"}
             THEN [end |-> "error", statusCode |-> o.status,
                   overloaded |-> ~ok /\ o.text]
             ELSE IF ok
             THEN [end |-> "return", statusCode |-> o.status,
                   overloaded |-> FALSE]
             ELSE [end |-> "error", statusCode |-> o.status,
                   overloaded |-> o.text]

\* C32 mutant: every error is retried while attempts are left
IsRetryableAlways(statusCode, isOverloaded) == TRUE

\* isOverloaded || isRetryableStatusCode
IsRetryable(statusCode, isOverloaded) ==
    isOverloaded \/ statusCode \in {503, 500, 429}

\* gem: phase ("off", "fetch", "delay", "returned", "thrown"), attempt (the
\* loop variable), and the results of the attempts made, in order
InitGemini ==
    /\ kv = [lock |-> [u \in Users |-> FALSE],
             cooldown |-> [u \in Users |-> FALSE],
             setLock |-> [s \in SetIds |-> FALSE],
             set |-> [s \in SetIds |-> NoOwner],
             fp |-> [u \in Users |-> [i \in Images |-> "absent"]],
             stats |-> [sc \in Scopes |-> [u \in Users |-> NoStats]],
             chapter |-> [sc \in {"daily", "weekly"} |-> [u \in Users |-> NULL]],
             version |-> 0]
    /\ r2 = [live |-> [r \in Slots |-> FALSE], kept |-> 0]
    /\ req = [r \in Slots |-> IdleReq]
    /\ hist = [setOwner |-> [s \in SetIds |-> NoOwner],
               setCommits |-> [s \in SetIds |-> 0],
               chapterCommits |-> [sc \in {"daily", "weekly"} |->
                                     [u \in Users |-> 0]],
               admitted |-> 0]
    /\ pl = PlIdle
    /\ slot = SlotIdle
    /\ auth = AuthIdle
    /\ gem = [phase |-> "fetch", attempt |-> 0, results |-> <<>>]
    /\ lb = LbIdle

NotGemini == <<kv, r2, req, hist, pl, slot, auth, lb>>

\* response = await fetch(...) and the rest of the loop body
GeminiFetch ==
    /\ gem.phase = "fetch"
    /\ \E o \in FetchOutcomes :
         LET res == AttemptResult(o)
             done == Append(gem.results, res)
         IN  gem' =
               IF res.end = "return"
               THEN [gem EXCEPT !.phase = "returned", !.results = done]
               ELSE IF IsRetryable(res.statusCode, res.overloaded)
                       /\ gem.attempt < API_RETRY_COUNT
               THEN [gem EXCEPT !.phase = "delay", !.results = done]
               ELSE [gem EXCEPT !.phase = "thrown", !.results = done]
    /\ UNCHANGED NotGemini

\* await delay(delayTime); continue
GeminiDelay ==
    /\ gem.phase = "delay"
    /\ gem' = [gem EXCEPT !.phase = "fetch", !.attempt = @ + 1]
    /\ UNCHANGED NotGemini

NextGemini ==
    \/ GeminiFetch
    \/ GeminiDelay

\* fetch and the timer of delay() complete
SpecGemini == InitGemini /\ [][NextGemini]_vars /\ WF_vars(NextGemini)

\* ============================================================== SpecBoard
\* The leaderboard of one scope: the stats records of the scope, the version
\* token, the snapshot cache, and the handlers that touch them: the commit
\* stage of /submit (updateScopedStats, bumpLeaderboardVersion and its own
\* getLeaderboardBundle) and GET /api/leaderboard.  One step per await.
LEADERBOARD_TOP_LIMIT == 50
SubmitSnapshotLimit == 10     \* getLeaderboardBundle(env.SESSION_KV, 10)
DefaultLimit == 20            \* limit of GET /api/leaderboard without ?limit
MaxBoardOps == 3              \* handler invocations of one run
MaxBoardSubmits == 2          \* of which /submit

BoardProcs == {"b1", "b2"}
BoardUsers == Users \cup {"carol"}   \* users that may have a stats record
BoardIds == 1..MaxBoardOps
NoRecord == [points |-> -1]
BadRecord == [points |-> -2]  \* a stored value that does not parse
NoSnapshot == [present |-> FALSE, entries |-> <<>>]
Snapshot(entries) == [present |-> TRUE, entries |-> entries]

\* Math.max(1, Math.min(limit, LEADERBOARD_TOP_LIMIT))
SafeLimit(limit) == Max2(1, Min2(limit, LEADERBOARD_TOP_LIMIT))

\* C36 mutant: points ascending
CompareEntriesAscending(a, b) == a.points - b.points

\* the comparator of sortLeaderboard
CompareEntries(a, b) ==
    IF b.points # a.points THEN b.points - a.points
    ELSE IF b.attempts # a.attempts THEN b.attempts - a.attempts
    ELSE a.updatedAt - b.updatedAt

\* Array.prototype.sort with that comparator: a stable sort, here by
\* insertion
RECURSIVE InsertEntry(_, _)
InsertEntry(sorted, e) ==
    IF sorted = <<>> THEN <<e>>
    ELSE IF CompareEntries(Head(sorted), e) <= 0
    THEN <<Head(sorted)>> \o InsertEntry(Tail(sorted), e)
    ELSE <<e>> \o sorted

RECURSIVE sortLeaderboard(_)
sortLeaderboard(entries) ==
    IF entries = <<>> THEN <<>>
    ELSE InsertEntry(sortLeaderboard(SubSeq(entries, 1, Len(entries) - 1)),
                     entries[Len(entries)])

\* entries.slice(0, n)
Slice(entries, n) == SubSeq(entries, 1, Min2(n, Len(entries)))

\* the records of batchStats that are kept, in the order of the listed
\* keys (kv.list returns keys in lexicographic order)
RECURSIVE KeptStats(_, _)
KeptStats(order, got) ==
    IF order = <<>> THEN <<>>
    ELSE (IF got[Head(order)] \in {NoRecord, BadRecord} THEN <<>>
          ELSE <<got[Head(order)]>>) \o KeptStats(Tail(order), got)

\* topList of readLeaderboardScope
TopList(order, got, limit) ==
    Slice(sortLeaderboard(KeptStats(order, got)), SafeLimit(limit))

BoardOrder == <<"alice", "bob", "carol">>
BoardVersions == 0..MaxBoardSubmits
BoardLimits == {SubmitSnapshotLimit, DefaultLimit}   \* limits of SpecBoard
RankLimits == {-1, 1, 2, 60}                        \* limits of SpecRank
CacheKeys ==
    {SafeLimit(limit) : limit \in BoardLimits \cup RankLimits} \X BoardVersions

IdleBoardProc ==
    [kind |-> "idle", pc |-> "idle", user |-> "alice", id |-> 0,
     current |-> NoRecord, version |-> 0, limit |-> 0, pending |-> {},
     got |-> [u \in BoardUsers |-> NoRecord], result |-> <<>>,
     \* history: the result came from the cache, the number of bumps done
     \* when that cache entry was written, and the submissions that had
     \* committed and bumped when the read started
     fromCache |-> FALSE, hitAt |-> 0, after |-> {}]

\* lb: stats (the record of each user, with the submissions it counts as
\* history), version (tokens are numbered in the order they are made),
\* cache (the snapshot stored under each cache key), and as history cachedAt
\* (the number of bumps done when the key was last written), bumped (the
\* submissions that committed and bumped), token (the token each of them
\* made), ops (invocations started) and submits
InitBoard ==
    /\ kv = [lock |-> [u \in Users |-> FALSE],
             cooldown |-> [u \in Users |-> FALSE],
             setLock |-> [s \in SetIds |-> FALSE],
             set |-> [s \in SetIds |-> NoOwner],
             fp |-> [u \in Users |-> [i \in Images |-> "absent"]],
             stats |-> [sc \in Scopes |-> [u \in Users |-> NoStats]],
             chapter |-> [sc \in {"daily", "weekly"} |-> [u \in Users |-> NULL]],
             version |-> 0]
    /\ r2 = [live |-> [r \in Slots |-> FALSE], kept |-> 0]
    /\ req = [r \in Slots |-> IdleReq]
    /\ hist = [setOwner |-> [s \in SetIds |-> NoOwner],
               setCommits |-> [s \in SetIds |-> 0],
               chapterCommits |-> [sc \in {"daily", "weekly"} |->
                                     [u \in Users |-> 0]],
               admitted |-> 0]
    /\ pl = PlIdle
    /\ slot = SlotIdle
    /\ auth = AuthIdle
    /\ gem = GemIdle
    /\ lb = [phase |-> "on",
             stats |-> [u \in BoardUsers |-> NoRecord],
             version |-> 0,
             cache |-> [k \in CacheKeys |-> NoSnapshot],
             cachedAt |-> [k \in CacheKeys |-> 0],
             bumped |-> {}, token |-> [i \in BoardIds |-> 0],
             ops |-> 0, submits |-> 0,
             proc |-> [p \in BoardProcs |-> IdleBoardProc]]

NotBoard == <<kv, r2, req, hist, pl, slot, auth, gem>>

BoardStep(p, q) == lb' = [lb EXCEPT !.proc[p] = q]

\* the commit stage of a /submit of user u starts
BoardSubmit(p, u) ==
    /\ lb.proc[p].pc \in {"idle", "returned"}
    /\ lb.ops < MaxBoardOps /\ lb.submits < MaxBoardSubmits
    /\ lb' = [lb EXCEPT !.ops = @ + 1, !.submits = @ + 1,
                        !.proc[p] = [IdleBoardProc EXCEPT
                                        !.kind = "submit", !.pc = "s_get",
                                        !.user = u, !.id = lb.ops + 1]]
    /\ UNCHANGED NotBoard

\* GET /api/leaderboard starts
BoardGet(p, limit) ==
    /\ lb.proc[p].pc \in {"idle", "returned"}
    /\ lb.ops < MaxBoardOps
    /\ lb' = [lb EXCEPT !.ops = @ + 1,
                        !.proc[p] = [IdleBoardProc EXCEPT
                                        !.kind = "get", !.pc = "r_version",
                                        !.id = lb.ops + 1, !.limit = limit,
                                        !.after = lb.bumped]]
    /\ UNCHANGED NotBoard

\* updateScopedStats: const current = await getJsonKV(kv, statsKey)
BoardStatsGet(p) ==
    /\ lb.proc[p].pc = "s_get"
    /\ BoardStep(p, [lb.proc[p] EXCEPT !.current = lb.stats[lb.proc[p].user],
                                       !.pc = "s_put"])
    /\ UNCHANGED NotBoard

\* nextStats of updateScopedStats: the participation bonus as the points,
\* the time of the request as updatedAt
NextBoardStats(current, id, userId) ==
    IF current = NoRecord
    THEN [userId |-> userId, points |-> 5, attempts |-> 1, updatedAt |-> id,
          subs |-> {id}]
    ELSE [userId |-> userId, points |-> current.points + 5,
          attempts |-> current.attempts + 1, updatedAt |-> id,
          subs |-> current.subs \cup {id}]

\* updateScopedStats: await putJsonKV(kv, statsKey, nextStats, ttl)
BoardStatsPut(p) ==
    /\ lb.proc[p].pc = "s_put"
    /\ lb' = [lb EXCEPT
                !.stats[lb.proc[p].user] =
                    NextBoardStats(lb.proc[p].current, lb.proc[p].id,
                                   lb.proc[p].user),
                !.proc[p].pc = "s_bump"]
    /\ UNCHANGED NotBoard

\* await bumpLeaderboardVersion(kv), then getLeaderboardBundle(kv, 10); a
\* failed bump is caught and the snapshot stays null
BoardBump(p) ==
    /\ lb.proc[p].pc = "s_bump"
    /\ \/ lb' = [lb EXCEPT
                   !.version = Cardinality(lb.bumped) + 1,
                   !.bumped = @ \cup {lb.proc[p].id},
                   !.token[lb.proc[p].id] = Cardinality(lb.bumped) + 1,
                   !.proc[p].pc = "r_version",
                   !.proc[p].limit = SubmitSnapshotLimit,
                   !.proc[p].after = lb.bumped \cup {lb.proc[p].id}]
       \/ BoardStep(p, [lb.proc[p] EXCEPT !.pc = "returned"])
    /\ UNCHANGED NotBoard

\* getLeaderboardBundle: const version = await getLeaderboardVersion(kv)
BoardGetVersion(p) ==
    /\ lb.proc[p].pc = "r_version"
    /\ BoardStep(p, [lb.proc[p] EXCEPT !.version = lb.version,
                                       !.pc = "r_cache"])
    /\ UNCHANGED NotBoard

CacheKeyOf(q) == <<SafeLimit(q.limit), q.version>>

\* readLeaderboardScope: cached = await getJsonKV(kv, cacheKey); a hit is
\* returned, a miss goes on to the scan, a failed read to the delete
BoardGetCache(p) ==
    /\ lb.proc[p].pc = "r_cache"
    /\ LET q == lb.proc[p]
           cached == lb.cache[CacheKeyOf(q)]
       IN  \/ BoardStep(p, IF cached # NoSnapshot
                           THEN [q EXCEPT
                                   !.result = Slice(cached.entries,
                                                    SafeLimit(q.limit)),
                                   !.fromCache = TRUE,
                                   !.hitAt = lb.cachedAt[CacheKeyOf(q)],
                                   !.pc = "returned"]
                           ELSE [q EXCEPT !.pc = "r_list"])
           \/ BoardStep(p, [q EXCEPT !.pc = "r_cache_del"])
    /\ UNCHANGED NotBoard

\* await kv.delete(cacheKey).catch(() => undefined)
BoardDeleteCache(p) ==
    /\ lb.proc[p].pc = "r_cache_del"
    /\ lb' = [lb EXCEPT !.cache[CacheKeyOf(lb.proc[p])] = NoSnapshot,
                        !.proc[p].pc = "r_list"]
    /\ UNCHANGED NotBoard

\* const listResult = await kv.list({ prefix, cursor, limit })
BoardList(p) ==
    /\ lb.proc[p].pc = "r_list"
    /\ LET keys == {u \in BoardUsers : lb.stats[u] # NoRecord}
       IN  BoardStep(p, [lb.proc[p] EXCEPT
                            !.pending = keys,
                            !.pc = IF keys = {} THEN "r_put" ELSE "r_get"])
    /\ UNCHANGED NotBoard

\* one getJsonKV of the Promise.all over the listed keys
BoardGetRecord(p) ==
    /\ lb.proc[p].pc = "r_get"
    /\ \E u \in lb.proc[p].pending :
         BoardStep(p, [lb.proc[p] EXCEPT
                          !.got[u] = lb.stats[u],
                          !.pending = @ \ {u},
                          !.pc = IF lb.proc[p].pending = {u}
                                 THEN "r_put" ELSE "r_get"])
    /\ UNCHANGED NotBoard

\* await putJsonKV(kv, cacheKey, topList, ttl); return topList
BoardPutCache(p) ==
    /\ lb.proc[p].pc = "r_put"
    /\ LET q == lb.proc[p]
           topList == TopList(BoardOrder, q.got, q.limit)
       IN  lb' = [lb EXCEPT
                    !.cache[CacheKeyOf(q)] = Snapshot(topList),
                    !.cachedAt[CacheKeyOf(q)] = Cardinality(lb.bumped),
                    !.proc[p] = [q EXCEPT !.result = topList,
                                          !.pc = "returned"]]
    /\ UNCHANGED NotBoard

BoardRead(p) ==
    \/ BoardGetVersion(p)
    \/ BoardGetCache(p)
    \/ BoardDeleteCache(p)
    \/ BoardList(p)
    \/ BoardGetRecord(p)
    \/ BoardPutCache(p)

NextBoard ==
    \/ \E p \in BoardProcs, u \in Users : BoardSubmit(p, u)
    \/ \E p \in BoardProcs, limit \in BoardLimits : BoardGet(p, limit)
    \/ \E p \in BoardProcs : BoardStatsGet(p)
    \/ \E p \in BoardProcs : BoardStatsPut(p)
    \/ \E p \in BoardProcs : BoardBump(p)
    \/ \E p \in BoardProcs : BoardRead(p)

SpecBoard == InitBoard /\ [][NextBoard]_vars

\* ---------------------------------------------------------------- SpecRank
\* The rebuild of a ranking from stored records: the records are drawn from
\* a small set, one handler reads the leaderboard twice.
RankPoints == {5, 10}
RankAttempts == {1, 2}
RankTimes == {1, 2}
RankRecords(u) ==
    {NoRecord, BadRecord}
    \cup {[userId |-> u, points |-> pt, attempts |-> a, updatedAt |-> t,
           subs |-> {}] : pt \in RankPoints, a \in RankAttempts, t \in RankTimes}

InitRank ==
    /\ kv = [lock |-> [u \in Users |-> FALSE],
             cooldown |-> [u \in Users |-> FALSE],
             setLock |-> [s \in SetIds |-> FALSE],
             set |-> [s \in SetIds |-> NoOwner],
             fp |-> [u \in Users |-> [i \in Images |-> "absent"]],
             stats |-> [sc \in Scopes |-> [u \in Users |-> NoStats]],
             chapter |-> [sc \in {"daily", "weekly"} |-> [u \in Users |-> NULL]],
             version |-> 0]
    /\ r2 = [live |-> [r \in Slots |-> FALSE], kept |-> 0]
    /\ req = [r \in Slots |-> IdleReq]
    /\ hist = [setOwner |-> [s \in SetIds |-> NoOwner],
               setCommits |-> [s \in SetIds |-> 0],
               chapterCommits |-> [sc \in {"daily", "weekly"} |->
                                     [u \in Users |-> 0]],
               admitted |-> 0]
    /\ pl = PlIdle
    /\ slot = SlotIdle
    /\ auth = AuthIdle
    /\ gem = GemIdle
    /\ \E ra \in RankRecords("alice"), rb \in RankRecords("bob"),
          rc \in RankRecords("carol") :
         lb = [phase |-> "on",
               stats |-> [u \in BoardUsers |->
                            IF u = "alice" THEN ra
                            ELSE IF u = "bob" THEN rb ELSE rc],
               version |-> 0,
               cache |-> [k \in CacheKeys |-> NoSnapshot],
               cachedAt |-> [k \in CacheKeys |-> 0],
               bumped |-> {}, token |-> [i \in BoardIds |-> 0],
               ops |-> MaxBoardOps - 2, submits |-> 0,
               proc |-> [p \in BoardProcs |-> IdleBoardProc]]

NextRank ==
    \/ \E limit \in RankLimits : BoardGet("b1", limit)
    \/ BoardRead("b1")

SpecRank == InitRank /\ [][NextRank]_vars

\* ============================================================== SpecScore
\* The OCR, scoring and feedback stages of one submission.  A string is a
\* sequence of characters (model text) or of non-empty fragments (text the
\* handler builds from its templates), so a string is empty exactly when the
\* sequence is.
MaxTextLen == 2        \* characters of a text part of the feedback model
MaxExtraLines == 1     \* lines the OCR text may have beyond the expected

TextChars == {" ", "x"}
Texts == UNION {[1..k -> TextChars] : k \in 0..MaxTextLen}
FinishReasons == {"null", "STOP", "MAX_TOKENS", "SAFETY", "RECITATION", "OTHER"}
PartKinds == {"none", "inline_data", "text"}
\* an OCR line either is the answer of its slot or is something else
LineMarks == {"right", "wrong"}
QuestionCounts == {1, 2, MAX_QUESTIONS_PER_GAOKAO_SET, ChapterQuestionCount}

\* String.prototype.trim on a sequence of characters
RECURSIVE TrimStart(_)
TrimStart(s) == IF s # <<>> /\ Head(s) = " " THEN TrimStart(Tail(s)) ELSE s

RECURSIVE TrimEnd(_)
TrimEnd(s) ==
    IF s # <<>> /\ s[Len(s)] = " " THEN TrimEnd(SubSeq(s, 1, Len(s) - 1)) ELSE s

Trim(s) == TrimEnd(TrimStart(s))

\* GeminiApiResponse as callGeminiAPI returns it: a body with an error
\* object makes callGeminiAPI throw, so a returned body has none
GeminiBody(hasCandidate, reason, kind, text) ==
    [candidates |-> hasCandidate, finishReason |-> reason, part |-> kind,
     text |-> text, error |-> FALSE]

FeedbackBodies ==
    {GeminiBody(FALSE, "null", "none", <<>>)}
    \cup {GeminiBody(TRUE, f, k, <<>>) : f \in FinishReasons,
                                         k \in {"none", "inline_data"}}
    \cup {GeminiBody(TRUE, f, "text", t) : f \in FinishReasons, t \in Texts}

\* the OCR text after trim(), as its lines
OcrTexts(n) == UNION {[1..k -> LineMarks] : k \in 0..(n + MaxExtraLines)}

OcrBodies(n) ==
    {GeminiBody(FALSE, "null", "none", <<>>)}
    \cup {GeminiBody(TRUE, f, k, <<>>) : f \in {"STOP", "SAFETY"},
                                         k \in {"none", "inline_data"}}
    \cup {GeminiBody(TRUE, f, "text", t) : f \in {"STOP", "MAX_TOKENS"},
                                           t \in OcrTexts(n)}

\* C14 mutant: lines are padded or cut without an issue being recorded
OcrOutcomeSilent(body, n) ==
    LET reasonIssue == body.finishReason \notin {"null", "STOP"}
        hasText == body.candidates /\ body.part = "text"
        lines == IF hasText THEN body.text ELSE <<>>
    IN  IF reasonIssue \/ ~hasText \/ lines = <<>>
        THEN [ocrError |-> TRUE, splitAnswers |-> <<>>]
        ELSE [ocrError |-> FALSE,
              splitAnswers |->
                 [i \in 1..n |-> IF i <= Len(lines) THEN lines[i]
                                 ELSE "[missing]"]]

\* the OCR stage on a returned body: ocrError and splitAnswers
OcrOutcome(body, n) ==
    LET reasonIssue == body.finishReason \notin {"null", "STOP"}
        hasText == body.candidates /\ body.part = "text"
        recognized == IF hasText THEN body.text ELSE <<>>
        err1 == reasonIssue \/ ~hasText
        lines == recognized
    IN  IF err1 \/ recognized = <<>>
        THEN [ocrError |-> TRUE, splitAnswers |-> <<>>]
        ELSE IF Len(lines) # n
        THEN [ocrError |-> TRUE,
              splitAnswers |->
                 [i \in 1..n |-> IF i <= Len(lines) THEN lines[i]
                                 ELSE "[missing]"]]
        ELSE [ocrError |-> FALSE, splitAnswers |-> lines]

\* C11 mutant: a slot is worth the whole score target
PointsPerQuestionUndivided(n) ==
    IF n > 0 THEN getScoreTarget(n) * 10 ELSE 0

\* pointsPerQuestion, in tenths of a point (scoreTarget is 2 per question,
\* so the quotient is exact)
PointsPerQuestion(n) ==
    IF n > 0 THEN (getScoreTarget(n) * 10) \div n ELSE 0

\* the scoring loop: one result per expected slot, score in tenths
ScoreResults(splitAnswers, n) ==
    [i \in 1..n |->
        LET recognized == IF i <= Len(splitAnswers) THEN splitAnswers[i]
                          ELSE "[missing]"
            isCorrect == recognized = "right"
        IN  [recognizedText |-> recognized, isCorrect |-> isCorrect,
             score |-> IF isCorrect THEN PointsPerQuestion(n) ELSE 0]]

\* totalScore += score over the first k results
RECURSIVE SumScores(_, _)
SumScores(results, k) ==
    IF k = 0 THEN 0 ELSE SumScores(results, k - 1) + results[k].score

\* totalScore in tenths of a point: Math.round(totalScore * 10) / 10 of the
\* sum leaves a whole number of tenths as it is
TotalScore(results, n) == SumScores(results, n)

\* errorDetails: one paragraph per incorrect result, joined
ErrorDetails(results) ==
    IF \E i \in DOMAIN results : ~results[i].isCorrect
    THEN <<"error details">> ELSE <<>>

\* the text both fallbacks build from the score and the error details
FallbackFeedback(errorDetails) ==
    <<"score line", "error details header">>
    \o (IF errorDetails # <<>> THEN errorDetails ELSE <<"no analysis">>)

\* C10 mutant: the trimmed text is taken whatever its length
ExtractAnyText(body) ==
    IF body.candidates /\ body.part = "text"
    THEN [generatedText |-> Trim(body.text), isNull |-> FALSE, why |-> ""]
    ELSE IF body.error
    THEN [generatedText |-> <<>>, isNull |-> TRUE, why |-> "API Error"]
    ELSE [generatedText |-> <<>>, isNull |-> TRUE,
          why |-> IF ~body.candidates THEN "No candidates."
                  ELSE IF body.part = "none" THEN "No parts."
                  ELSE "First part not text."]

\* generatedText (null or a non-empty text) and extractionFailureReason
ExtractGeneratedText(body) ==
    IF body.candidates /\ body.part = "text"
    THEN IF Len(Trim(body.text)) > 0
         THEN [generatedText |-> Trim(body.text), isNull |-> FALSE, why |-> ""]
         ELSE [generatedText |-> <<>>, isNull |-> TRUE,
               why |-> "Extracted text is empty."]
    ELSE IF body.error
    THEN [generatedText |-> <<>>, isNull |-> TRUE, why |-> "API Error"]
    ELSE [generatedText |-> <<>>, isNull |-> TRUE,
          why |-> IF ~body.candidates THEN "No candidates."
                  ELSE IF body.part = "none" THEN "No parts."
                  ELSE "First part not text."]

\* the feedback stage on a returned body
FeedbackOutcome(body, errorDetails) ==
    LET ex == ExtractGeneratedText(body)
        reason == IF body.candidates THEN body.finishReason ELSE "null"
    IN  IF reason \notin {"null", "STOP"} /\ ~ex.isNull
        THEN [feedback |-> ex.generatedText \o <<"system note">>,
              feedbackErrorMsg |-> TRUE, extraction |-> "truncated"]
        ELSE IF ~ex.isNull
        THEN [feedback |-> ex.generatedText, feedbackErrorMsg |-> FALSE,
              extraction |-> "text"]
        ELSE [feedback |-> FallbackFeedback(errorDetails),
              feedbackErrorMsg |-> TRUE, extraction |-> ex.why]

\* the pipeline starts: the challenge is resolved, the image is stored
ScoreBegin(n) ==
    /\ pl.phase = "off"
    /\ pl' = [PlIdle EXCEPT !.phase = "ocr", !.expectedQuestionCount = n,
                            !.ocrFetches = 1]
    /\ UNCHANGED <<kv, r2, req, hist, slot, auth, gem, lb>>

\* callGeminiAPI: an attempt fails with a retryable error and attempts are
\* left
GeminiRetry ==
    /\ pl.phase \in {"ocr", "feedback"}
    /\ pl.attempt < API_RETRY_COUNT
    /\ pl' = [pl EXCEPT !.attempt = @ + 1,
                        !.ocrFetches = IF pl.phase = "ocr" THEN @ + 1 ELSE @,
                        !.feedbackFetches =
                            IF pl.phase = "feedback" THEN @ + 1 ELSE @]
    /\ UNCHANGED <<kv, r2, req, hist, slot, auth, gem, lb>>

\* scoring, and the feedback of a full score, which needs no model call
Scored(p, ocr) ==
    LET n == p.expectedQuestionCount
        results == ScoreResults(ocr.splitAnswers, n)
        total == TotalScore(results, n)
        q == [p EXCEPT !.ocrError = ocr.ocrError, !.results = results,
                       !.totalScore = total, !.attempt = 0]
    IN  IF total = getScoreTarget(n) * 10
        THEN [q EXCEPT !.phase = "final", !.feedback = <<"full score">>,
                       !.feedbackErrorMsg = FALSE, !.extraction = "perfect"]
        ELSE [q EXCEPT !.phase = "feedback", !.feedbackFetches = 1]

\* callGeminiAPI returns the body of the OCR call
OcrReturns ==
    /\ pl.phase = "ocr"
    /\ \E body \in OcrBodies(pl.expectedQuestionCount) :
         pl' = Scored([pl EXCEPT !.ocrEnd = "body",
                                 !.ocrFetchesAtEnd = pl.ocrFetches,
                                 !.ocrFinish = body.finishReason,
                                 !.ocrHasText = body.part = "text",
                                 !.ocrLines = body.text],
                      OcrOutcome(body, pl.expectedQuestionCount))
    /\ UNCHANGED <<kv, r2, req, hist, slot, auth, gem, lb>>

\* C15 mutant: a thrown OCR call ends the request with an error response
OcrThrowsAborts ==
    /\ pl.phase = "ocr"
    /\ pl' = [pl EXCEPT !.phase = "aborted", !.ocrEnd = "thrown",
                        !.ocrFetchesAtEnd = pl.ocrFetches, !.ocrError = TRUE]
    /\ UNCHANGED <<kv, r2, req, hist, slot, auth, gem, lb>>

\* callGeminiAPI throws on the OCR call: every slot is "[OCR call failed]"
OcrThrows ==
    /\ pl.phase = "ocr"
    /\ pl' = Scored([pl EXCEPT !.ocrEnd = "thrown",
                                !.ocrFetchesAtEnd = pl.ocrFetches],
                     [ocrError |-> TRUE,
                      splitAnswers |-> [i \in 1..pl.expectedQuestionCount
                                           |-> "[call failed]"]])
    /\ UNCHANGED <<kv, r2, req, hist, slot, auth, gem, lb>>

\* callGeminiAPI returns the body of the feedback call
FeedbackReturns ==
    /\ pl.phase = "feedback"
    /\ \E body \in FeedbackBodies :
         LET out == FeedbackOutcome(body, ErrorDetails(pl.results))
         IN  pl' = [pl EXCEPT !.phase = "final", !.feedback = out.feedback,
                              !.feedbackErrorMsg = out.feedbackErrorMsg,
                              !.extraction = out.extraction]
    /\ UNCHANGED <<kv, r2, req, hist, slot, auth, gem, lb>>

\* callGeminiAPI throws on the feedback call
FeedbackThrows ==
    /\ pl.phase = "feedback"
    /\ pl' = [pl EXCEPT !.phase = "final",
                        !.feedback = FallbackFeedback(ErrorDetails(pl.results)),
                        !.feedbackErrorMsg = TRUE, !.extraction = "thrown"]
    /\ UNCHANGED <<kv, r2, req, hist, slot, auth, gem, lb>>

\* the commit stage went through and the scored response is returned
Respond ==
    /\ pl.phase = "final"
    /\ pl' = [pl EXCEPT !.phase = "responded"]
    /\ UNCHANGED <<kv, r2, req, hist, slot, auth, gem, lb>>

NextScore ==
    \/ \E n \in QuestionCounts : ScoreBegin(n)
    \/ GeminiRetry
    \/ OcrReturns
    \/ OcrThrows
    \/ FeedbackReturns
    \/ FeedbackThrows
    \/ Respond

SpecScore == Init /\ [][NextScore]_vars

\* =============================================================== SpecSlot
\* The scoring of one answer slot on bounded strings.  "[" stands for the
\* punctuation and symbols removePunctuation strips, " " for the separators.
MaxAnswerLen == 2      \* characters of a recognized line and of a reference

AnswerChars == {"a", "b", "[", " "}
StrippedChars == {"[", " "}
Answers == UNION {[1..k -> AnswerChars] : k \in 0..MaxAnswerLen}
\* splitAnswers holds trimmed lines
RecognizedLines == {s \in Answers : Trim(s) = s}
\* correctAnswers[i] of a question that has no answer
NoAnswer == <<"undefined">>

\* text.replace(/[\p{P}\p{S}\p{Z}]+/gu, '')
RECURSIVE removePunctuation(_)
removePunctuation(text) ==
    IF text = <<>> THEN <<>>
    ELSE IF Head(text) \in StrippedChars THEN removePunctuation(Tail(text))
    ELSE <<Head(text)>> \o removePunctuation(Tail(text))

\* recognized.startsWith("[")
StartsWithBracket(text) == text # <<>> /\ Head(text) = "["

\* one pass of the scoring loop: success and isCorrect of the slot
ScoreSlot(recognized, correct) ==
    LET success == ~StartsWithBracket(recognized)
        cleanedRecognized == removePunctuation(recognized)
        cleanedCorrect == removePunctuation(correct)
    IN  IF success /\ correct # NoAnswer
        THEN [success |-> TRUE,
              isCorrect |-> cleanedRecognized = cleanedCorrect
                            /\ cleanedRecognized # <<>>]
        ELSE [success |-> FALSE, isCorrect |-> FALSE]

\* the loop reaches a slot: its OCR line and its reference answer
SlotBegin(recognized, correct) ==
    /\ slot.phase = "off"
    /\ slot' = [phase |-> "given", recognized |-> recognized,
                correct |-> correct, success |-> FALSE, isCorrect |-> FALSE]
    /\ UNCHANGED <<kv, r2, req, hist, pl, auth, gem, lb>>

\* the slot is scored
SlotScored ==
    /\ slot.phase = "given"
    /\ LET out == ScoreSlot(slot.recognized, slot.correct)
       IN  slot' = [slot EXCEPT !.phase = "scored", !.success = out.success,
                                !.isCorrect = out.isCorrect]
    /\ UNCHANGED <<kv, r2, req, hist, pl, auth, gem, lb>>

NextSlot ==
    \/ \E recognized \in RecognizedLines, correct \in Answers \cup {NoAnswer} :
         SlotBegin(recognized, correct)
    \/ SlotScored

SpecSlot == Init /\ [][NextSlot]_vars

\* =============================================================== SpecAuth
\* login, logout and change_password of one user, every await on the store
\* one step, two handlers running at a time.
CHANGE_PASSWORD_MAX_ATTEMPTS == 5
MaxAuthOps == 4        \* operations started, the first login included

Procs == {"p1", "p2"}
Passwords == {"pw1", "pw2"}
Tokens == 1..MaxAuthOps

\* hashPassword: a function of the password and the salt
hashPassword(password, salt) == <<password, salt>>

\* timingSafeEqual
timingSafeEqual(a, b) == a = b

\* C17 mutant: a token passes when its session record is stored
SessionStored(t) == t \in auth.sessions

\* getSessionFromRequest on the store as it is: the session record is
\* stored and the auth record points at the token
SessionValid(t) ==
    /\ t \in auth.sessions
    /\ auth.record.exists
    /\ auth.record.activeSessionToken = t

\* the user logged in once with pw1 and got token 1; rate is the failure
\* counter earlier change_password requests left
Established(rate) ==
    [AuthIdle EXCEPT
        !.record = [exists |-> TRUE, passwordSalt |-> 1,
                    passwordHash |-> hashPassword("pw1", 1),
                    activeSessionToken |-> 1],
        !.sessions = {1}, !.rate = rate, !.profile = 1, !.ops = 1,
        !.known = {1},
        !.issued = <<1>>, !.byLogin = {1}]

InitAuth ==
    /\ auth \in {AuthIdle} \cup
                {Established(rate) :
                    rate \in {NULL, CHANGE_PASSWORD_MAX_ATTEMPTS - 1,
                              CHANGE_PASSWORD_MAX_ATTEMPTS}}
    /\ kv = [lock |-> [u \in Users |-> FALSE],
             cooldown |-> [u \in Users |-> FALSE],
             setLock |-> [s \in SetIds |-> FALSE],
             set |-> [s \in SetIds |-> NoOwner],
             fp |-> [u \in Users |-> [i \in Images |-> "absent"]],
             stats |-> [sc \in Scopes |-> [u \in Users |-> NoStats]],
             chapter |-> [sc \in {"daily", "weekly"} |-> [u \in Users |-> NULL]],
             version |-> 0]
    /\ r2 = [live |-> [r \in Slots |-> FALSE], kept |-> 0]
    /\ req = [r \in Slots |-> IdleReq]
    /\ hist = [setOwner |-> [s \in SetIds |-> NoOwner],
               setCommits |-> [s \in SetIds |-> 0],
               chapterCommits |-> [sc \in {"daily", "weekly"} |->
                                     [u \in Users |-> 0]],
               admitted |-> 0]
    /\ pl = PlIdle
    /\ slot = SlotIdle
    /\ gem = GemIdle
    /\ lb = LbIdle

NotAuth == <<kv, r2, req, hist, pl, slot, gem, lb>>

\* the handler of p moves to q, the store fields change as given
AuthStep(p, q, record, sessions, rate) ==
    auth' = [auth EXCEPT !.proc[p] = q, !.record = record,
                         !.sessions = sessions, !.rate = rate]

\* the handler of p moves to q and the store stays as it is
ProcStep(p, q) == auth' = [auth EXCEPT !.proc[p] = q]

\* the handler of p returns with status st; what stays of the request is
\* its kind and the status
ProcDone(p, st) == [IdleProc EXCEPT !.status = st, !.kind = auth.proc[p].kind]

\* a request arrives; it is given the next fresh value (salt and token)
AuthBegin(p, kind, token, password, newPassword) ==
    /\ auth.proc[p].pc = "idle"
    /\ p = "p2" => auth.proc["p1"].pc # "idle"
    /\ auth.ops < MaxAuthOps
    /\ auth' = [auth EXCEPT
                  !.ops = @ + 1,
                  !.proc[p] = [IdleProc EXCEPT
                                 !.kind = kind, !.token = token,
                                 !.password = password,
                                 !.newPassword = newPassword,
                                 !.fresh = auth.ops + 1,
                                 !.pc = IF kind = "login" THEN "l_get_auth"
                                        ELSE IF kind = "logout" THEN "o_get_session"
                                        ELSE "c_get_session"]]
    /\ UNCHANGED NotAuth

\* ---- POST /api/login: authenticateAndIssueSession -----------------------
\* C22 mutant: the stored record is taken over without the password check
LoginGetAuthUnchecked(p) ==
    LET me == auth.proc[p]
        existingAuth == auth.record
    IN  /\ me.pc = "l_get_auth"
        /\ IF ~existingAuth.exists
           THEN ProcStep(p, [me EXCEPT
                    !.authRecord = [exists |-> TRUE, passwordSalt |-> me.fresh,
                                    passwordHash |-> hashPassword(me.password, me.fresh),
                                    activeSessionToken |-> 0],
                    !.pc = "l_profile"])
           ELSE ProcStep(p, [me EXCEPT
                    !.authRecord = existingAuth,
                    !.pc = IF existingAuth.activeSessionToken # 0
                           THEN "l_del_session" ELSE "l_profile"])
        /\ UNCHANGED NotAuth

\* const existingAuth = await getJsonKV(kv, authKey), then the new record or
\* the password check
LoginGetAuth(p) ==
    LET me == auth.proc[p]
        existingAuth == auth.record
    IN  /\ me.pc = "l_get_auth"
        /\ IF ~existingAuth.exists
           THEN ProcStep(p, [me EXCEPT
                    !.authRecord = [exists |-> TRUE, passwordSalt |-> me.fresh,
                                    passwordHash |-> hashPassword(me.password, me.fresh),
                                    activeSessionToken |-> 0],
                    !.pc = "l_profile"])
           ELSE IF ~timingSafeEqual(hashPassword(me.password, existingAuth.passwordSalt),
                                    existingAuth.passwordHash)
           THEN ProcStep(p, ProcDone(p, 401))
           ELSE ProcStep(p, [me EXCEPT
                    !.authRecord = existingAuth,
                    !.pc = IF existingAuth.activeSessionToken # 0
                           THEN "l_del_session" ELSE "l_profile"])
        /\ UNCHANGED NotAuth

\* await kv.delete(getSessionKey(authRecord.activeSessionToken))
LoginDeleteSession(p) ==
    LET me == auth.proc[p]
    IN  /\ me.pc = "l_del_session"
        /\ AuthStep(p, [me EXCEPT !.pc = "l_profile"], auth.record,
                    auth.sessions \ {me.authRecord.activeSessionToken}, auth.rate)
        /\ UNCHANGED NotAuth

\* await ensureUserProfile(kv, userId, username): the profile is read and
\* written back with a new updatedAt
LoginEnsureProfile(p) ==
    LET me == auth.proc[p]
    IN  /\ me.pc = "l_profile"
        /\ auth' = [auth EXCEPT !.proc[p] = [me EXCEPT !.pc = "l_put_session"],
                                !.profile = @ + 1]
        /\ UNCHANGED NotAuth

\* await putJsonKV(kv, getSessionKey(token), session, SESSION_TTL_SECONDS)
LoginPutSession(p) ==
    LET me == auth.proc[p]
    IN  /\ me.pc = "l_put_session"
        /\ AuthStep(p, [me EXCEPT !.pc = "l_put_auth"], auth.record,
                    auth.sessions \cup {me.fresh}, auth.rate)
        /\ UNCHANGED NotAuth

\* authRecord.activeSessionToken = token; await putJsonKV(kv, authKey,
\* authRecord); the session is returned
LoginPutAuth(p) ==
    LET me == auth.proc[p]
    IN  /\ me.pc = "l_put_auth"
        /\ auth' = [auth EXCEPT
                      !.proc[p] = ProcDone(p, 200),
                      !.record = [me.authRecord EXCEPT
                                    !.activeSessionToken = me.fresh],
                      !.known = @ \cup {me.fresh},
                      !.issued = Append(@, me.fresh),
                      !.byLogin = @ \cup {me.fresh}]
        /\ UNCHANGED NotAuth

\* ---- POST /api/logout ---------------------------------------------------
\* const session = await getJsonKV(env.SESSION_KV, getSessionKey(token))
LogoutGetSession(p) ==
    LET me == auth.proc[p]
    IN  /\ me.pc = "o_get_session"
        /\ ProcStep(p, [me EXCEPT !.wasActive = SessionValid(me.token),
                                  !.pc = IF me.token \in auth.sessions
                                         THEN "o_get_auth" ELSE "o_del_session"])
        /\ UNCHANGED NotAuth

\* C19 mutant: the auth record is left as it is
LogoutGetAuthOnly(p) ==
    LET me == auth.proc[p]
    IN  /\ me.pc = "o_get_auth"
        /\ ProcStep(p, [me EXCEPT !.authRecord = auth.record,
                                  !.pc = "o_del_session"])
        /\ UNCHANGED NotAuth

\* const authRecord = await getJsonKV(..., getAuthKey(session.userId))
LogoutGetAuth(p) ==
    LET me == auth.proc[p]
    IN  /\ me.pc = "o_get_auth"
        /\ ProcStep(p, [me EXCEPT
                          !.authRecord = auth.record,
                          !.pc = IF auth.record.exists
                                    /\ auth.record.activeSessionToken = me.token
                                 THEN "o_put_auth" ELSE "o_del_session"])
        /\ UNCHANGED NotAuth

\* delete authRecord.activeSessionToken; await putJsonKV(..., authRecord)
LogoutPutAuth(p) ==
    LET me == auth.proc[p]
    IN  /\ me.pc = "o_put_auth"
        /\ AuthStep(p, [me EXCEPT !.pc = "o_del_session"],
                    [me.authRecord EXCEPT !.activeSessionToken = 0],
                    auth.sessions, auth.rate)
        /\ UNCHANGED NotAuth

\* await env.SESSION_KV.delete(getSessionKey(token)), then the response
LogoutDeleteSession(p) ==
    LET me == auth.proc[p]
    IN  /\ me.pc = "o_del_session"
        /\ auth' = [auth EXCEPT
                      !.proc[p] = ProcDone(p, 200),
                      !.sessions = @ \ {me.token},
                      !.loggedOut = IF me.wasActive THEN @ \cup {me.token}
                                    ELSE @]
        /\ UNCHANGED NotAuth

\* ---- POST /api/change_password -----------------------------------------
\* getSessionFromRequest: const session = await getJsonKV(kv, sessionKey);
\* a missing record ends the request with 401
ChangeGetSession(p) ==
    LET me == auth.proc[p]
    IN  /\ me.pc = "c_get_session"
        /\ ProcStep(p, IF me.token \in auth.sessions
                       THEN [me EXCEPT !.pc = "c_check_auth"]
                       ELSE ProcDone(p, 401))
        /\ UNCHANGED NotAuth

\* getSessionFromRequest: the auth record is read and its pointer compared
\* with the token
ChangeCheckAuth(p) ==
    LET me == auth.proc[p]
    IN  /\ me.pc = "c_check_auth"
        /\ ProcStep(p, [me EXCEPT
                          !.pc = IF auth.record.exists
                                    /\ auth.record.activeSessionToken = me.token
                                 THEN "c_get_auth" ELSE "c_del_stale"])
        /\ UNCHANGED NotAuth

\* getSessionFromRequest: await kv.delete(sessionKey), then 401
ChangeDeleteStale(p) ==
    LET me == auth.proc[p]
    IN  /\ me.pc = "c_del_stale"
        /\ AuthStep(p, ProcDone(p, 401), auth.record,
                    auth.sessions \ {me.token}, auth.rate)
        /\ UNCHANGED NotAuth

\* const authRecord = await getJsonKV(env.SESSION_KV, authKey)
ChangeGetAuth(p) ==
    LET me == auth.proc[p]
    IN  /\ me.pc = "c_get_auth"
        /\ ProcStep(p, IF ~auth.record.exists THEN ProcDone(p, 401)
                       ELSE [me EXCEPT !.authRecord = auth.record,
                                       !.pc = "c_get_rate"])
        /\ UNCHANGED NotAuth

\* the failure counter is read; at the budget the request ends with 429,
\* below it the old password is verified against the copy of the record
ChangeGetRate(p) ==
    LET me == auth.proc[p]
        failedAttempts == IF auth.rate > 0 THEN auth.rate ELSE 0
    IN  /\ me.pc = "c_get_rate"
        /\ ProcStep(p,
             IF failedAttempts >= CHANGE_PASSWORD_MAX_ATTEMPTS
             THEN ProcDone(p, 429)
             ELSE [me EXCEPT
                     !.failedAttempts = failedAttempts,
                     !.pc = IF timingSafeEqual(
                                  hashPassword(me.password,
                                               me.authRecord.passwordSalt),
                                  me.authRecord.passwordHash)
                            THEN "c_put_session" ELSE "c_put_rate"])
        /\ UNCHANGED NotAuth

\* await env.SESSION_KV.put(changePasswordRateKey,
\* String(failedAttempts + 1), ...), then 401
ChangePutRate(p) ==
    LET me == auth.proc[p]
    IN  /\ me.pc = "c_put_rate"
        /\ AuthStep(p, ProcDone(p, 401), auth.record, auth.sessions,
                    me.failedAttempts + 1)
        /\ UNCHANGED NotAuth

\* await putJsonKV(env.SESSION_KV, getSessionKey(newToken), newSession, ...)
ChangePutSession(p) ==
    LET me == auth.proc[p]
    IN  /\ me.pc = "c_put_session"
        /\ AuthStep(p, [me EXCEPT !.pc = "c_del_session"], auth.record,
                    auth.sessions \cup {me.fresh}, auth.rate)
        /\ UNCHANGED NotAuth

\* await env.SESSION_KV.delete(getSessionKey(session.token))
ChangeDeleteSession(p) ==
    LET me == auth.proc[p]
    IN  /\ me.pc = "c_del_session"
        /\ AuthStep(p, [me EXCEPT !.pc = "c_put_auth"], auth.record,
                    auth.sessions \ {me.token}, auth.rate)
        /\ UNCHANGED NotAuth

\* await putJsonKV(env.SESSION_KV, authKey, updatedAuth)
ChangePutAuth(p) ==
    LET me == auth.proc[p]
    IN  /\ me.pc = "c_put_auth"
        /\ auth' = [auth EXCEPT
                      !.proc[p] = [me EXCEPT !.pc = "c_del_rate"],
                      !.record = [me.authRecord EXCEPT
                                    !.passwordSalt = me.fresh,
                                    !.passwordHash =
                                        hashPassword(me.newPassword, me.fresh),
                                    !.activeSessionToken = me.fresh],
                      !.issued = Append(@, me.fresh)]
        /\ UNCHANGED NotAuth

\* await env.SESSION_KV.delete(changePasswordRateKey), then the response
\* with the new token
ChangeDeleteRate(p) ==
    LET me == auth.proc[p]
    IN  /\ me.pc = "c_del_rate"
        /\ auth' = [auth EXCEPT
                      !.proc[p] = ProcDone(p, 200),
                      !.rate = NULL,
                      !.known = @ \cup {me.fresh}]
        /\ UNCHANGED NotAuth

LoginStep(p) ==
    \/ LoginGetAuth(p)
    \/ LoginDeleteSession(p)
    \/ LoginEnsureProfile(p)
    \/ LoginPutSession(p)
    \/ LoginPutAuth(p)

LogoutStep(p) ==
    \/ LogoutGetSession(p)
    \/ LogoutGetAuth(p)
    \/ LogoutPutAuth(p)
    \/ LogoutDeleteSession(p)

ChangeStep(p) ==
    \/ ChangeGetSession(p)
    \/ ChangeCheckAuth(p)
    \/ ChangeDeleteStale(p)
    \/ ChangeGetAuth(p)
    \/ ChangeGetRate(p)
    \/ ChangePutRate(p)
    \/ ChangePutSession(p)
    \/ ChangeDeleteSession(p)
    \/ ChangePutAuth(p)
    \/ ChangeDeleteRate(p)

NextAuth ==
    \/ \E p \in Procs, pw \in Passwords : AuthBegin(p, "login", 0, pw, "")
    \/ \E p \in Procs, t \in auth.known : AuthBegin(p, "logout", t, "", "")
    \/ \E p \in Procs, t \in auth.known, old \in Passwords, new \in Passwords :
          old # new /\ AuthBegin(p, "change", t, old, new)
    \/ \E p \in Procs : LoginStep(p)
    \/ \E p \in Procs : LogoutStep(p)
    \/ \E p \in Procs : ChangeStep(p)

SpecAuth == InitAuth /\ [][NextAuth]_vars

\* ================================================================ claims
\* stages of a request between challenge resolution and the cooldown write
ScoringPcs == {"fp_get", "fp_put", "r2_put", "ocr"}
CommitPcs == {"fp_final", "set_delete", "stats_get", "stats_put",
              "chapter_put", "lb_bump", "cooldown_put"}
Rejections == {400, 403, 404, 409, 413, 429}

IsGaokao(r) == req[r].challengeType = "gaokao"

\* C1: single use of a GaoKao set.  A /submit that arrives after a
\* submission of the same setId was committed (by whichever user) never gets
\* past challenge resolution: it is not scored, commits no stats and does not
\* answer 200.
C1_SingleUse ==
    \A r \in Slots :
        (IsGaokao(r) /\ req[r].challengeIdentifier \in req[r].usedAtStart)
        => /\ req[r].pc \notin ScoringPcs \cup CommitPcs
           /\ ~req[r].ocrDone
           /\ ~req[r].scoreCommitted
           /\ req[r].status \in {0} \cup Rejections

\* C1 witness: a later /submit of a consumed set was answered "set missing"
C1_Witness ==
    \E r \in Slots :
        /\ req[r].pc = "done" /\ IsGaokao(r)
        /\ req[r].challengeIdentifier \in req[r].usedAtStart
        /\ req[r].status = 400 /\ req[r].reason = "set_missing"

\* C2: a GaoKao set is never scored twice, whatever the interleaving of the
\* store steps of the requests that name it: at most one submission per set
\* is committed.
C2_ScoredAtMostOnce ==
    \A s \in SetIds : hist.setCommits[s] <= 1

\* C3: ownership.  A /submit of a GaoKao set by a user who is not its owner
\* never reaches OCR, scoring or the stats commit, and it is answered with a
\* rejection; when the ownership check is what stopped it the answer is 403.
C3_Ownership ==
    \A r \in Slots :
        (IsGaokao(r) /\ req[r].user # hist.setOwner[req[r].challengeIdentifier])
        => /\ req[r].pc \notin ScoringPcs \cup CommitPcs
           /\ ~req[r].ocrDone
           /\ ~req[r].scoreCommitted
           /\ req[r].status \in {0} \cup Rejections
           /\ req[r].reason = "not_owner" => req[r].status = 403

\* C3 witness: a non-owner was answered 403 for a set that is stored
C3_Witness ==
    \E r \in Slots :
        /\ req[r].pc = "done" /\ IsGaokao(r)
        /\ hist.setOwner[req[r].challengeIdentifier] \notin {NoOwner, req[r].user}
        /\ req[r].status = 403

\* C4: per-user mutual exclusion.  At any time at most one /submit of a user
\* is past admission control (it took the submit lock and has not returned).
C4_OneInFlightPerUser ==
    \A u \in Users :
        Cardinality({r \in Slots : /\ req[r].user = u
                                   /\ req[r].hasLock
                                   /\ req[r].pc # "done"}) <= 1

\* C5: duplicate-image rejection.  A /submit whose duplicate-image guard
\* finds a fingerprint record of (user, image hash), pending or finalized, is
\* answered 409, is not scored, commits nothing, and leaves that record alone.
C5_DuplicateImage ==
    \A r \in Slots :
        req[r].dupSeen # "none"
        => /\ req[r].status = 409
           /\ req[r].pc \in {"fin_lock", "fin_setlock", "done"}
           /\ ~req[r].ocrDone
           /\ ~req[r].scoreCommitted
           /\ ~req[r].imageFingerprintReserved
           /\ req[r].lastWrite \notin {"put_fp", "final_fp", "del_fp", "put_stats"}

\* C5 witness: a request was rejected on the pending record of a submission
\* that was still in flight
C5_Witness ==
    \E r \in Slots :
        /\ req[r].pc = "done" /\ req[r].dupSeen = "pending"
        /\ req[r].status = 409

\* C6: cooldown enforcement.  A /submit that finds the cooldown marker of its
\* user is answered 429 at once: it has taken no lock and written nothing.
\* (The form fields are read later, so the challenge type plays no part.)
C6_Cooldown ==
    \A r \in Slots :
        req[r].sawCooldown
        => /\ req[r].pc = "done"
           /\ req[r].status = 429
           /\ ~req[r].hasLock /\ ~req[r].hasSetLock
           /\ req[r].lastWrite = "none"

\* C6 witness: after a scored submission of the user, with the marker still
\* there, a request of that user was answered 429
C6_Witness ==
    \E r \in Slots :
        /\ req[r].pc = "done" /\ req[r].sawCooldown /\ req[r].status = 429
        /\ kv.cooldown[req[r].user]
        /\ kv.stats["total"][req[r].user].attempts > 0

\* C7 as claimed: every /submit that passed admission control has written
\* the cooldown marker when it returns, whatever the exit path.
C7_CooldownOnEveryExit ==
    \A r \in Slots :
        (req[r].pc = "done" /\ req[r].hasLock) => req[r].wroteCooldown

\* C7 amended: the cooldown marker is written on the success path only.  A
\* /submit that answers 200 has written it before it returns, and one that
\* leaves on any other path has not written it.
C7_CooldownOnSuccessOnly ==
    \A r \in Slots :
        /\ req[r].status = 200 => req[r].wroteCooldown /\ req[r].scoreCommitted
        /\ req[r].status \notin {0, 200} => ~req[r].wroteCooldown
        /\ (req[r].wroteCooldown /\ req[r].pc = "done") => req[r].status = 200

\* C7 witness: a scored submission has returned with the marker written
C7_Witness ==
    \E r \in Slots :
        /\ req[r].pc = "done" /\ req[r].status = 200 /\ req[r].wroteCooldown

C9_TotalNeverDecreases ==
    [][\A u \in Users :
          /\ kv'.stats["total"][u].points >= kv.stats["total"][u].points
          /\ kv'.stats["total"][u].attempts >= kv.stats["total"][u].attempts]_vars

\* C10: never-empty feedback.  The scored response of a submission carries a
\* non-empty feedback string whatever the feedback call did (a text, a
\* truncated text, no candidates, no parts, a non-text part, an empty or
\* blank text, a thrown error) and on the full-score path.
C10_FeedbackNeverEmpty ==
    pl.phase \in {"final", "responded"} => Len(pl.feedback) > 0

\* C10 witness: the feedback model answered with a blank text and the
\* response carries the fallback
C10_Witness ==
    /\ pl.phase = "responded"
    /\ pl.extraction = "Extracted text is empty."
    /\ Len(pl.feedback) > 0

\* states of the pipeline in which the scoring has run
AfterScoring == {"feedback", "final", "responded"}

\* C11: score bounds.  For a scored submission with N questions the total
\* is between 0 and the score target N x 2, every slot scores 0 or
\* target / N, and the total is a whole multiple of 0.2 (2 tenths).
C11_ScoreBounds ==
    pl.phase \in AfterScoring
    => LET n == pl.expectedQuestionCount
           target == n * SCORE_PER_QUESTION * 10
       IN  /\ Len(pl.results) = n
           /\ pl.totalScore >= 0 /\ pl.totalScore <= target
           /\ \A i \in 1..n : pl.results[i].score * n \in {0, target}
           /\ pl.totalScore % 2 = 0

\* C11 witness: a submission of several questions scored part of them
C11_Witness ==
    /\ pl.phase = "responded"
    /\ pl.totalScore > 0
    /\ pl.totalScore < pl.expectedQuestionCount * SCORE_PER_QUESTION * 10

\* C12: scoring determinism.  The verdict of a slot depends only on the
\* recognized and the reference string after stripping: it is true exactly
\* when the stripped strings are equal and the stripped recognized text is
\* not empty.
C12_VerdictOfStrippedStrings ==
    (slot.phase = "scored" /\ slot.correct # NoAnswer)
    => (slot.isCorrect
        <=> /\ removePunctuation(slot.recognized) = removePunctuation(slot.correct)
            /\ removePunctuation(slot.recognized) # <<>>)

\* C13: perfect-score scenario.  A submission whose every line matches its
\* reference has totalScore = scoreTarget, and the stats write that commits
\* it leaves the stored total points of its user strictly higher than they
\* were.
C13_PerfectScoreRaisesTotal ==
    [][\A r \in Slots :
          (/\ req[r].pc = "stats_put"
           /\ req[r].totalScore = getScoreTarget(req[r].expectedQuestionCount) * 10
           /\ req'[r].scoreCommitted)
          => kv'.stats["total"][req[r].user].points
                > kv.stats["total"][req[r].user].points]_vars

\* the OCR call returned a text that was split into lines
OcrSplit ==
    /\ pl.phase \in AfterScoring
    /\ pl.ocrEnd = "body" /\ pl.ocrHasText
    /\ pl.ocrFinish \in {"null", "STOP"}
    /\ pl.ocrLines # <<>>

\* C14: OCR line-count realignment.  When the OCR call returns k lines and
\* k is not N, there are still N results in question order: result i is
\* line i for i up to min(k, N), the results beyond k hold the
\* answer-missing placeholder with isCorrect false and score 0, ocrIssue is
\* set, and the OCR call is not made again (no fetch of it after the one
\* that returned).
C14_Realignment ==
    (OcrSplit /\ Len(pl.ocrLines) # pl.expectedQuestionCount)
    => LET n == pl.expectedQuestionCount
           k == Len(pl.ocrLines)
       IN  /\ Len(pl.results) = n
           /\ \A i \in 1..n :
                IF i <= k
                THEN pl.results[i].recognizedText = pl.ocrLines[i]
                ELSE /\ pl.results[i].recognizedText = "[missing]"
                     /\ ~pl.results[i].isCorrect
                     /\ pl.results[i].score = 0
           /\ pl.ocrError
           /\ pl.ocrFetches = pl.ocrFetchesAtEnd

\* C14 witness: three lines came back for four questions and the response
\* was returned
C14_Witness ==
    /\ pl.phase = "responded" /\ OcrSplit
    /\ pl.expectedQuestionCount = MAX_QUESTIONS_PER_GAOKAO_SET
    /\ Len(pl.ocrLines) = MAX_QUESTIONS_PER_GAOKAO_SET - 1
    /\ pl.results[MAX_QUESTIONS_PER_GAOKAO_SET].recognizedText = "[missing]"

\* C15: OCR total failure degrades.  When the OCR call throws (every attempt
\* failed, or an error that is not retried) the submission goes on: all N
\* results hold the call-failed placeholder with isCorrect false and score
\* 0, ocrIssue is set, the total is 0, and the pipeline is in or past the
\* feedback stage, on its way to the commit stage and the response.
C15_OcrFailureDegrades ==
    pl.ocrEnd = "thrown"
    => /\ pl.phase \in AfterScoring
       /\ Len(pl.results) = pl.expectedQuestionCount
       /\ \A i \in 1..pl.expectedQuestionCount :
            /\ pl.results[i].recognizedText = "[call failed]"
            /\ ~pl.results[i].isCorrect
            /\ pl.results[i].score = 0
       /\ pl.totalScore = 0
       /\ pl.ocrError
       /\ pl.phase \in {"final", "responded"} => Len(pl.feedback) > 0

\* C15 witness: all API_RETRY_COUNT + 1 attempts of the OCR call failed and
\* the scored response was returned
C15_Witness ==
    /\ pl.phase = "responded" /\ pl.ocrEnd = "thrown"
    /\ pl.ocrFetches = API_RETRY_COUNT + 1

QuotaReasons == {"daily_quota", "weekly_quota"}

\* C16: chapter quota rejection comes first.  A chapter /submit that read a
\* daily or weekly counter at its limit is answered 429 with nothing but the
\* submit lock written: no fingerprint reserved, no object stored, no model
\* call, no counter and no stats record changed.
C16_QuotaFirst ==
    \A r \in Slots :
        /\ (/\ req[r].challengeType = "chapter"
            /\ req[r].pc \notin {"get_daily", "get_weekly", "done"}
            /\ \/ req[r].chapterDailyCount >= CHAPTER_DAILY_SUBMIT_LIMIT
               \/ req[r].chapterWeeklyCount >= CHAPTER_WEEKLY_SUBMIT_LIMIT)
           => /\ req[r].pc = "fin_lock"
              /\ req[r].reason \in QuotaReasons
              /\ req[r].lastWrite = "put_lock"
        /\ req[r].reason \in QuotaReasons
           => /\ req[r].status = 429
              /\ ~req[r].imageFingerprintKey /\ ~req[r].imageFingerprintReserved
              /\ ~req[r].r2Key /\ ~r2.live[r]
              /\ ~req[r].ocrDone /\ ~req[r].scoreCommitted
              /\ req[r].lastWrite \in {"put_lock", "del_lock"}

\* C16 witness: with the daily counter of alice at its limit her chapter
\* submission was answered 429, the counters and her stats as they were
C16_Witness ==
    /\ req["r1"].pc = "done" /\ req["r1"].user = "alice"
    /\ req["r1"].reason = "daily_quota" /\ req["r1"].status = 429
    /\ kv.chapter["daily"]["alice"] = CHAPTER_DAILY_SUBMIT_LIMIT
    /\ kv.stats["daily"]["alice"] = StatsAfter(CHAPTER_DAILY_SUBMIT_LIMIT)


\* the handler of p takes the step
Steps(p) == auth'.proc[p] # auth.proc[p]

\* the tokens that pass getSessionFromRequest
ValidTokens == {t \in Tokens : SessionValid(t)}

\* C17: in every reachable state, whatever the interleaving of the logins,
\* logouts and password changes of the user, at most one token passes
\* session validation.
C17_AtMostOneValidSession == Cardinality(ValidTokens) <= 1

\* two session records of the user are stored, left by overlapping
\* requests, and one of the tokens is valid
C17_Witness ==
    /\ Cardinality(auth.sessions) >= 2
    /\ Cardinality(ValidTokens) = 1
    /\ \E p \in Procs : auth.proc[p].pc # "idle"

\* the latest token written into the auth record
LastIssued == auth.issued[Len(auth.issued)]

\* C18: when a login completes, the token it returns passes validation and
\* every token issued earlier fails it; the earlier tokens keep failing, and
\* the token of the latest login keeps passing until a later login, or a
\* logout or password change made with that token, takes its place.
C18_Supersession ==
    [][/\ \A p \in Procs :
            (auth.proc[p].pc = "l_put_auth" /\ Steps(p)) =>
                \A t \in Tokens :
                    SessionValid(t)' <=> (t = auth.proc[p].fresh)
       /\ \A i \in 1..(Len(auth.issued) - 1) : ~SessionValid(auth.issued[i])
       /\ \A t \in auth.byLogin :
            (t = LastIssued /\ SessionValid(t) /\ ~SessionValid(t)') =>
                \E p \in Procs :
                    /\ Steps(p)
                    /\ \/ auth.proc[p].kind = "login"
                       \/ auth.proc[p].token = t]_vars

\* C19: once a logout made with the active token T has returned, T fails
\* validation from then on, new logins included, and the auth record does
\* not point at T.
C19_LogoutInvalidates ==
    \A t \in auth.loggedOut :
        /\ ~SessionValid(t)
        /\ auth.record.activeSessionToken # t

\* a token was logged out and the user has logged in again since
C19_Witness ==
    /\ auth.loggedOut # {}
    /\ \E t \in Tokens : SessionValid(t) /\ t \notin auth.loggedOut

\* the failure counter as change_password reads it
StoredFailures == IF auth.rate > 0 THEN auth.rate ELSE 0

\* C20: a change_password request that finds the failure counter at the
\* budget ends with 429 and leaves the auth record and the sessions as they
\* are; a failed verification below the budget raises the stored counter by
\* one.
C20_AttemptBudget ==
    [][\A p \in Procs :
        /\ (auth.proc[p].pc = "c_get_rate" /\ Steps(p)
              /\ StoredFailures >= CHANGE_PASSWORD_MAX_ATTEMPTS) =>
                /\ auth'.proc[p].status = 429
                /\ auth'.record = auth.record
                /\ auth'.sessions = auth.sessions
        /\ (auth.proc[p].pc = "c_put_rate" /\ Steps(p)) =>
                (StoredFailures' = StoredFailures + 1)]_vars


\* C21: when change_password returns its new token, the old token fails
\* validation, the new token passes it unless a later login has taken or is
\* taking its place, the
\* stored hash is the hash of the new password (so a login succeeds with the
\* new password only) and the failure counter is not stored.
C21_Rotation ==
    [][\A p \in Procs, old \in Tokens, new \in Tokens, newPassword \in Passwords :
        (/\ auth.proc[p].pc = "c_del_rate"
         /\ Steps(p)
         /\ old = auth.proc[p].token
         /\ new = auth.proc[p].fresh
         /\ newPassword = auth.proc[p].newPassword) =>
            /\ ~SessionValid(old)'
            /\ \/ SessionValid(new)'
               \/ LastIssued' # new
               \/ \E q \in Procs :
                     /\ auth.proc[q].kind = "login"
                     /\ auth.proc[q].pc # "idle"
                     /\ auth.proc[q].authRecord.activeSessionToken = new
            /\ \A pw \in Passwords :
                 timingSafeEqual(
                     hashPassword(pw, auth'.record.passwordSalt),
                     auth'.record.passwordHash) <=> (pw = newPassword)
            /\ auth'.rate = NULL]_vars

\* C22: a login that finds the record of the user and fails the password
\* check ends with 401 at once; the auth record, the session records, the
\* tokens that pass validation and the profile are as before.
C22_WrongPasswordNoWrite ==
    [][\A p \in Procs :
        (/\ auth.proc[p].pc = "l_get_auth"
         /\ Steps(p)
         /\ auth.record.exists
         /\ ~timingSafeEqual(hashPassword(auth.proc[p].password,
                                          auth.record.passwordSalt),
                             auth.record.passwordHash)) =>
            /\ auth'.proc[p].pc = "idle"
            /\ auth'.proc[p].status = 401
            /\ auth'.record = auth.record
            /\ auth'.sessions = auth.sessions
            /\ auth'.rate = auth.rate
            /\ auth'.profile = auth.profile
            /\ ValidTokens' = ValidTokens]_vars

\* a login was refused while the user has a session that passes validation
C22_Witness ==
    /\ \E p \in Procs :
         /\ auth.proc[p].pc = "idle"
         /\ auth.proc[p].kind = "login"
         /\ auth.proc[p].status = 401
    /\ ValidTokens # {}


\* the invocation in slot r returns with this step
Returns(r) == req[r].pc \in {"fin_lock", "fin_setlock"} /\ req'[r].pc = "done"

\* C23: a /submit that reserved the fingerprint or made the key of the blob
\* and returns without having committed its stats leaves no fingerprint
\* record of its image and no blob behind.
C23_CompensatingRollback ==
    [][\A r \in Slots :
        (/\ Returns(r)
         /\ req[r].imageFingerprintReserved \/ req[r].r2Key
         /\ ~req[r].scoreCommitted) =>
            /\ kv'.fp[req[r].user][req[r].image] = "absent"
            /\ ~r2'.live[r]]_vars

\* C24: from the moment its stats are committed, no step of a submission
\* changes the fingerprint record of its image or deletes its blob.
C24_NoRollbackAfterCommit ==
    [][\A r \in Slots :
        (/\ req[r].pc \notin {"idle", "done"}
         /\ req[r].scoreCommitted
         /\ req'[r] # req[r]) =>
            /\ kv'.fp[req[r].user][req[r].image] = kv.fp[req[r].user][req[r].image]
            /\ r2'.live[r] = r2.live[r]]_vars

\* a submission failed after its commit and has returned: its blob is
\* stored and the user has a finalized fingerprint
C24_Witness ==
    \E r \in Slots :
        /\ req[r].pc = "done"
        /\ req[r].scoreCommitted
        /\ req[r].status = 500
        /\ r2.live[r]
        /\ \E i \in Images : kv.fp[req[r].user][i] = "final"


\* the transitions the record of a (user, hash) pair may make
FingerprintTransitions ==
    {<<"absent", "pending">>, <<"pending", "final">>, <<"pending", "absent">>}

\* C25: in every interleaving of submissions a fingerprint record only goes
\* from absent to pending, from pending to finalized and from pending to
\* absent: a finalized record is neither overwritten nor deleted.
C25_FingerprintLifecycle ==
    [][\A u \in Users, i \in Images :
        kv'.fp[u][i] # kv.fp[u][i] =>
            <<kv.fp[u][i], kv'.fp[u][i]>> \in FingerprintTransitions]_vars


\* the submission in slot r commits its stats with this step
Commits(r) == ~req[r].scoreCommitted /\ req'[r].scoreCommitted

\* C26: the stored stats are the exact sum over the committed submissions:
\* a step that commits a submission adds one attempt and its pointsAwarded
\* to the stored total, weekly and daily records of the user, and no other
\* step changes a stats record.
C26_ExactAccumulation ==
    [][/\ \A r \in Slots :
            Commits(r) =>
                \A sc \in Scopes :
                    kv'.stats[sc][req[r].user] =
                        NextStats(kv.stats[sc][req[r].user],
                                  req[r].pointsAwarded, req[r].totalScore)
       /\ (\A r \in Slots : ~Commits(r)) => kv'.stats = kv.stats]_vars


\* C27: in every interleaving of the requests of a user, the committed
\* submissions of a chapter stay within the daily limit for the day and
\* within the weekly limit for the week.
C27_QuotaBound ==
    \A u \in Users :
        /\ hist.chapterCommits["daily"][u] <= CHAPTER_DAILY_SUBMIT_LIMIT
        /\ hist.chapterCommits["weekly"][u] <= CHAPTER_WEEKLY_SUBMIT_LIMIT


\* the submission in slot r takes the step after its stats commit in which
\* the chapter counters are written
CountsAttempt(r) ==
    /\ req[r].pc = "chapter_put"
    /\ req[r].challengeType = "chapter"
    /\ req[r].scoreCommitted
    /\ req'[r] # req[r]

\* C28: the chapter counters of a user change only in the counter step of a
\* committed Chapter submission of that user, never in a step of a GaoKao
\* submission or of a submission that is not committed; that step raises the
\* stored daily and weekly counter by exactly one.
C28_CountersOnCommitOnly ==
    [][/\ \A sc \in {"daily", "weekly"}, u \in Users :
            kv'.chapter[sc][u] # kv.chapter[sc][u] =>
                \E r \in Slots : req[r].user = u /\ CountsAttempt(r)
       /\ \A r \in Slots :
            CountsAttempt(r) =>
                \A sc \in {"daily", "weekly"} :
                    kv'.chapter[sc][req[r].user] =
                        parseStoredCounter(kv.chapter[sc][req[r].user], 0) + 1]_vars


\* the step in which the handler in slot r reads the form of its request is
\* its answer to the fields sid, co and img
AnswersForm(r, sid, co, img) ==
    /\ req[r].pc = "put_lock"
    /\ req'[r] = Validate([req[r] EXCEPT !.hasLock = TRUE,
                                         !.lastWrite = "put_lock"],
                          sid, co, img)

\* no blob of the request is stored and the OCR call has not been made
NoExternalCall(r) == ~r2.live[r] /\ ~req[r].r2Key /\ ~req[r].ocrDone

\* C29 as stated: a request that supplies neither or both of setId and
\* chapterOrder is rejected with a client error before any object-store
\* write or AI call.
C29_ExactlyOneIdentifier ==
    [][\A r \in Slots, sid \in SetIdValues, co \in ChapterOrderValues,
          img \in ImageValues :
        (AnswersForm(r, sid, co, img) /\ ((sid = "") <=> (co = ""))) =>
            /\ req'[r].status \in 400..499
            /\ NoExternalCall(r)']_vars

\* C29 amended: a request that supplies neither setId nor chapterOrder is
\* rejected with 400 before any object-store write or AI call; a request
\* that supplies both is handled as the GaoKao submission of its setId.
C29_AtLeastOneIdentifier ==
    [][\A r \in Slots, sid \in SetIdValues, co \in ChapterOrderValues,
          img \in ImageValues :
        AnswersForm(r, sid, co, img) =>
            /\ (sid = "" /\ co = "") =>
                  /\ req'[r].status = 400
                  /\ req'[r].reason = "no_challenge"
                  /\ NoExternalCall(r)'
            /\ (sid # "") =>
                  /\ req'[r].challengeType = "gaokao"
                  /\ req'[r].challengeIdentifier = sid
                  /\ req'[r].reason # "no_challenge"]_vars

\* a request without identifier was rejected, nothing was stored for it
C29_Witness ==
    \E r \in Slots :
        /\ req[r].status = 400
        /\ req[r].reason = "no_challenge"
        /\ NoExternalCall(r)


\* the OCR call returned a text together with a finish reason other than
\* STOP
OcrSoftFailure ==
    /\ pl.phase \in AfterScoring
    /\ pl.ocrEnd = "body" /\ pl.ocrHasText
    /\ pl.ocrFinish \notin {"null", "STOP"}
    /\ pl.ocrLines # <<>>

\* C30: OCR soft failure still uses the text.  When the OCR call returns
\* text together with a non-STOP finish reason, ocrIssue is set and the
\* returned lines are the recognized answers of their slots: result i holds
\* line i, and a line that matches its reference is scored correct.
C30_SoftFailureUsesText ==
    OcrSoftFailure
    => /\ pl.ocrError
       /\ \A i \in 1..pl.expectedQuestionCount :
            i <= Len(pl.ocrLines)
            => /\ pl.results[i].recognizedText = pl.ocrLines[i]
               /\ pl.ocrLines[i] = "right" => pl.results[i].isCorrect


\* C31: step ordering within one submission.  The step that makes the OCR
\* call is taken only by a request that reserved its fingerprint and whose
\* image is stored; the fingerprint finalization, the set deletion and the
\* stats write are taken only after OCR, scoring and feedback are over and
\* before the submit lock is released; after the release of the submit lock
\* the only step left is the release of the set lock.
C31_StepOrdering ==
    [][\A r \in Slots :
          req'[r] # req[r]
          => /\ req[r].pc = "ocr"
                => /\ req[r].imageFingerprintReserved
                   /\ req[r].r2Key /\ r2.live[r]
             /\ req[r].pc \in {"fp_final", "set_delete", "stats_put"}
                => req[r].ocrDone /\ ~req[r].relLock
             /\ (req[r].pc \notin {"idle", "done"} /\ req[r].relLock)
                => req[r].pc = "fin_setlock"]_vars

\* C31 witness: a GaoKao submission went through every stage and returned
C31_Witness ==
    \E r \in Slots :
        /\ req[r].pc = "done" /\ req[r].status = 200
        /\ req[r].challengeType = "gaokao"
        /\ req[r].ocrDone /\ req[r].scoreCommitted
        /\ req[r].relLock /\ req[r].relSetLock


\* a failure the claim calls transient: HTTP 429, 500 or 503, or a message
\* with an overload phrase
Transient(res) ==
    res.end = "error" /\ (res.statusCode \in {429, 500, 503} \/ res.overloaded)

GeminiAttemptsBounded ==
    LET made == Len(gem.results)
    IN  /\ made <= API_RETRY_COUNT + 1
        /\ \A k \in 1..made :
             \* an attempt that was followed by another failed transiently
             /\ (k < made \/ gem.phase \in {"delay", "fetch"})
                => Transient(gem.results[k]) /\ k < API_RETRY_COUNT + 1
             \* any other failure is the last attempt, and it is thrown
             /\ (gem.results[k].end = "error" /\ ~Transient(gem.results[k]))
                => k = made /\ gem.phase = "thrown"
             /\ gem.results[k].end = "return"
                => k = made /\ gem.phase = "returned"

\* C32: bounded retry of the AI gateway client.  One invocation of
\* callGeminiAPI makes at most 3 attempts and ends with a returned value or
\* a thrown error; an attempt is followed by another only if it failed
\* with a transient failure and fewer than 3 attempts were made; any other
\* failure is thrown by the attempt it occurred in, so a first failure that
\* is not transient is thrown after exactly one attempt.
C32_BoundedRetry ==
    /\ []GeminiAttemptsBounded
    /\ <>(gem.phase \in {"returned", "thrown"})

\* C32 witness: three attempts failed transiently and the last error was
\* thrown
C32_Witness ==
    /\ gem.phase = "thrown"
    /\ Len(gem.results) = API_RETRY_COUNT + 1
    /\ \A k \in 1..Len(gem.results) : Transient(gem.results[k])


\* the leaderboard refresh of request r has failed
RefreshFails(r) ==
    req[r].pc = "lb_bump" /\ req'[r].leaderboardSnapshot = "null"

\* C33: leaderboard refresh is best-effort.  A failure of the version bump
\* or of the snapshot recomputation, after the stats were committed, takes
\* the request on to the cooldown write with a null snapshot and leaves the
\* committed stats, the fingerprint record and the image blob as they are;
\* the request then writes the cooldown marker and returns its scored
\* response with status 200, and no other status unless the cooldown write
\* itself fails.
C33_BestEffortRefresh ==
    [][\A r \in Slots :
          /\ RefreshFails(r)
             => /\ req[r].scoreCommitted /\ req'[r].scoreCommitted
                /\ req'[r].pc = "cooldown_put"
                /\ kv'.stats = kv.stats /\ kv'.fp = kv.fp /\ r2' = r2
          /\ (/\ req[r].pc \notin {"idle", "done"} /\ req'[r].pc = "done"
              /\ req[r].leaderboardSnapshot = "null")
             => \/ req'[r].status = 200 /\ req'[r].wroteCooldown
                \/ req'[r].reason = "cooldown_put_failed"]_vars

\* C33 witness: a scored response with a null snapshot, the cooldown
\* marker written and the fingerprint of the request finalized
C33_Witness ==
    \E r \in Slots :
        /\ req[r].pc = "done" /\ req[r].status = 200
        /\ req[r].leaderboardSnapshot = "null"
        /\ req[r].scoreCommitted /\ req[r].wroteCooldown
        /\ kv.cooldown[req[r].user]
        /\ kv.stats["total"][req[r].user].attempts > 0


\* a leaderboard read of handler p has returned its ranking
ReadReturned(p) ==
    lb.proc[p].pc = "returned" /\ lb.proc[p].limit # 0

\* C34: version-token cache busting.  A leaderboard read that started after
\* a submission had committed its stats and bumped the version does not
\* return a snapshot that was cached before that bump, and the ranking it
\* returns holds a record that counts that submission.
C34_CacheBusting ==
    \A p \in BoardProcs :
        ReadReturned(p)
        => \A id \in lb.proc[p].after :
             /\ lb.proc[p].fromCache => lb.proc[p].hitAt >= lb.token[id]
             /\ \E i \in 1..Len(lb.proc[p].result) :
                  id \in lb.proc[p].result[i].subs

\* C35: cached snapshots are immutable.  A step that leaves a snapshot
\* stored under a cache key that already held one leaves its content as it
\* was.
C35_SnapshotImmutable ==
    [][\A k \in CacheKeys :
          (lb.cache[k].present /\ lb'.cache[k].present)
          => lb'.cache[k] = lb.cache[k]]_vars


\* a ranks strictly before b: more points, then more attempts, then an
\* older updatedAt
RanksBefore(a, b) ==
    \/ a.points > b.points
    \/ a.points = b.points /\ a.attempts > b.attempts
    \/ a.points = b.points /\ a.attempts = b.attempts
       /\ a.updatedAt < b.updatedAt

\* C36: leaderboard order.  A returned ranking holds readable records of the
\* scope, each user at most once, in the order points descending, attempts
\* descending, updatedAt ascending; it has as many entries as there are
\* readable records, up to the requested limit clamped to 1..50, and no
\* record left out ranks before one that is in it; a record that does not
\* parse is skipped and the ranking is still returned.
C36_LeaderboardOrder ==
    \A p \in BoardProcs :
        ReadReturned(p)
        => LET res == lb.proc[p].result
               n == Max2(1, Min2(lb.proc[p].limit, LEADERBOARD_TOP_LIMIT))
               readable == {u \in BoardUsers :
                              lb.stats[u] \notin {NoRecord, BadRecord}}
               ranked == {res[i].userId : i \in 1..Len(res)}
           IN  /\ Len(res) = Min2(n, Cardinality(readable))
               /\ Cardinality(ranked) = Len(res)
               /\ \A i \in 1..Len(res) :
                    res[i].userId \in readable
                    /\ res[i] = lb.stats[res[i].userId]
               /\ \A i, j \in 1..Len(res) :
                    i < j => ~RanksBefore(res[j], res[i])
               /\ \A u \in readable \ ranked, i \in 1..Len(res) :
                    ~RanksBefore(lb.stats[u], res[i])

\* C36 witness: two records tie on points, a third does not parse, and a
\* ranking of limit 1 was returned
C36_Witness ==
    /\ ReadReturned("b1") /\ lb.proc["b1"].limit = 1
    /\ Len(lb.proc["b1"].result) = 1
    /\ lb.stats["carol"] = BadRecord
    /\ lb.stats["alice"] \notin {NoRecord, BadRecord}
    /\ lb.stats["bob"] \notin {NoRecord, BadRecord}
    /\ lb.stats["alice"].points = lb.stats["bob"].points
    /\ lb.stats["alice"].attempts < lb.stats["bob"].attempts
    /\ lb.proc["b1"].result[1].userId = "bob"


\* C37: points awarded.  A committed submission of 4 questions with c
\* correct slots is awarded 20 x c + 5 points, plus 15 when c = 4; every
\* committed submission is awarded at least 5 points, and the stats write
\* that commits it leaves the stored total points of its user strictly
\* higher than they were.
C37_PointsAwarded ==
    [][\A r \in Slots :
          Commits(r)
          => LET n == req[r].expectedQuestionCount
                 c == req[r].totalScore \div (SCORE_PER_QUESTION * 10)
             IN  /\ n = 4 => req[r].pointsAwarded
                               = 20 * c + 5 + (IF c = 4 THEN 15 ELSE 0)
                 /\ req[r].pointsAwarded >= 5
                 /\ kv'.stats["total"][req[r].user].points
                      > kv.stats["total"][req[r].user].points]_vars


\* request r was answered 409 because the lock of its set was held, and is
\* on its way out
RejectedBySetLock(r) ==
    req[r].pc \notin {"idle", "done"} /\ req[r].reason = "set_locked"

\* C38: a /submit rejected with 409 because the set lock of its setId is
\* held does not delete or overwrite that lock: no step of the rejected
\* request changes the set locks, so the lock stays held until the request
\* that acquired it releases it.
C38_RejectedKeepsSetLock ==
    [][\A r \in Slots :
          (RejectedBySetLock(r) /\ req'[r] # req[r])
          => kv'.setLock = kv.setLock]_vars


\* request r is answered by its admission control with this step
RejectedAtAdmission(r) ==
    req[r].pc \in {"get_lock", "get_cooldown"} /\ req'[r].status # 0

\* C39: a /submit rejected at admission control changes no stored state.
\* The step that finds the submit lock or the cooldown marker of the user
\* answers 429 and ends the request; it leaves every key of the store and
\* every blob as it is, and the request has written nothing.
C39_AdmissionRejectionWritesNothing ==
    [][\A r \in Slots :
          RejectedAtAdmission(r)
          => /\ req'[r].pc = "done" /\ req'[r].status = 429
             /\ req'[r].lastWrite = "none"
             /\ kv' = kv /\ r2' = r2]_vars

\* C39 witness: one request was rejected for the lock another one holds,
\* and the lock is still there
C39_Witness ==
    \E r \in Slots :
        /\ req[r].pc = "done" /\ req[r].reason = "submit_locked"
        /\ req[r].lastWrite = "none"
        /\ kv.lock[req[r].user]


\* a step of request r, which is rejected for an ownership violation: the
\* rejection itself or a step of its cleanup
OwnershipRejectionStep(r) ==
    req'[r] # req[r] /\ req'[r].reason = "not_owner"

====
